---- MODULE Spec2Model ----
(***************************************************************************)
(* Model of the indexing pipeline of brenofandrade/ubchat:                 *)
(*   - TextChunker            (src/src/indexer/chunking/text_chunker.py)   *)
(*   - ContextGenerator       (src/src/indexer/context/context_generator.py)*)
(*   - EmbeddingGenerator     (src/src/indexer/embeddings/embedding_generator.py)*)
(*   - DocumentIndexer        (src/src/indexer/main_indexer.py)            *)
(* Texts are sequences of one-character strings.  Offsets and indices that *)
(* the program exposes (start_char, end_char, chunk_index, find results)   *)
(* keep Python's zero-based convention.                                    *)
(***************************************************************************)
EXTENDS Integers, Sequences, FiniteSets, TLC

VARIABLES
    \* TextChunker.chunk_document
    text, doc_id, strategy, chunk_size, chunk_overlap, chunks, cpc,
    \* TextChunker._chunk_fixed_size, one loop iteration at a time
    w_start,          \* the local start: where the next window begins
    w_index,          \* the local chunk_index
    wpc,              \* position inside _chunk_fixed_size
    \* ContextGenerator.generate_context_for_chunk
    use_provider,     \* "openai" or "anthropic"
    e_chunk,          \* the Chunk being enriched
    epc,              \* position inside generate_context_for_chunk
    attempt_number,   \* the retry layer's attempt counter
    llm_calls,        \* invocations of the text-generation service
    responses,        \* what the service answered, one entry per invocation
    delays,           \* the sleeps between attempts, in seconds
    e_result,         \* the EnrichedChunk returned (NoResult before)
    e_raised,         \* generate_context_for_chunk left by an exception
    \* ContextGenerator.generate_contexts_batch
    g_chunks,         \* chunks, the argument
    g_i,              \* one-based position of the loop in chunks
    enriched_chunks,  \* the list being built
    gpc,              \* position inside generate_contexts_batch
    g_answers,        \* history: the last answer of the service for each chunk
    \* repeated runs of the pipeline over the same documents
    r_docs,           \* the ids of the two documents
    r_run,            \* number of the current run over the documents
    r_pos,            \* position in r_docs of the document indexed next
    r_store,          \* the Vector Records the Pinecone index holds
    r_upserted,       \* history: every (id, doc_id, chunk_index) upserted
    r_after,          \* history: the ids held after each run
    \* EmbeddingGenerator
    m_entry,          \* the method that was called
    emb_model,        \* settings.embedding_model
    service_len,      \* length of the vectors the embedding service returns
    m_chunks,         \* enriched_chunks, the argument
    use_enhanced_text,
    batch_size,
    mpc,              \* position inside the method
    m_texts,          \* texts, the list given to generate_embeddings_batch
    group_i,          \* i, the index of the current group
    item_j,           \* zero-based index in texts of the item being retried
    item_attempt,     \* the retry layer's attempt counter of generate_embedding
    all_embeddings,
    emb_calls,        \* the invocations of the embedding service, in order
    vectors,          \* the Vector Records returned
    m_raised,         \* the method was left by an exception
    \* DocumentIndexer and its collaborators
    table,            \* the rows of the Oracle table, ordered by id
    status,           \* the status column of each row
    store,            \* the ids of the vectors the Pinecone index holds, per document
    update_oracle_status,
    use_llm_context,
    bpc,              \* position inside index_all_documents
    b_raised,         \* index_all_documents was left by an exception
    documents,        \* the list fetch_documents returned
    di,               \* one-based position in documents of the loop
    stats,            \* the statistics mapping
    dpc,              \* position inside index_document
    n_chunks,         \* len(chunks)
    n_placeholders,   \* enriched chunks that carry the placeholder
    n_enriched,       \* len(enriched_chunks)
    n_embeddings,     \* len(all_embeddings)
    n_zero,           \* zero vectors among the embeddings
    n_vectors,        \* len(vectors)
    total_upserted,
    d_error,          \* the exception index_document is about to raise
    trace,            \* history: the steps of the current index_document run
    processed,        \* history: the ids index_document was called with
    outcomes          \* history: how each index_document call ended

windowVars == <<w_start, w_index, wpc>>
chunkVars == <<text, doc_id, strategy, chunk_size, chunk_overlap, chunks, cpc,
               windowVars>>
enrichVars == <<use_provider, e_chunk, epc, attempt_number, llm_calls,
                responses, delays, e_result, e_raised>>

genVars == <<g_chunks, g_i, enriched_chunks, gpc, g_answers>>

runVars == <<r_docs, r_run, r_pos, r_store, r_upserted, r_after>>

embedVars == <<m_entry, emb_model, service_len, m_chunks, use_enhanced_text,
               batch_size, mpc, m_texts, group_i, item_j, item_attempt,
               all_embeddings, emb_calls, vectors, m_raised>>

indexVars == <<table, status, store, update_oracle_status, use_llm_context,
               bpc, b_raised, documents, di, stats, dpc, n_chunks,
               n_placeholders, n_enriched, n_embeddings, n_zero, n_vectors,
               total_upserted, d_error, trace, processed, outcomes>>

vars == <<chunkVars, enrichVars, genVars, runVars, embedVars, indexVars>>

-----------------------------------------------------------------------------
(* Bounds of the model *)

MaxLen == 5          \* longest document text, in characters
MaxChunkSize == 2    \* largest settings.chunk_size
MaxOverlap == 2      \* largest settings.chunk_overlap
MaxEmbChunks == 3    \* longest list of enriched chunks / texts to embed
MaxBatchSize == 2    \* largest explicit batch_size of generate_embeddings_batch
MaxDocs == 2         \* most rows in the Oracle table
MaxGenChunks == 2    \* longest list given to generate_contexts_batch
MaxRunLen == 3       \* longest text of the documents that are indexed twice
MaxFirstLen == 2     \* longest first paragraph of a two-paragraph text
MaxSecondLen == 3    \* longest second paragraph of a two-paragraph text
MaxWindowLen == 3    \* longest text given to the loop of _chunk_fixed_size

-----------------------------------------------------------------------------
(* Characters and Python string primitives *)

SP == " "
NL == "\n"
DOT == "."
Letters == {"a"}
Spaces == {SP, NL}
Puncts == {DOT}
Alphabet == Letters \cup Spaces \cup Puncts

Min(a, b) == IF a < b THEN a ELSE b
Max(a, b) == IF a > b THEN a ELSE b

\* s[a:b] with 0 <= a
Slice(s, a, b) == SubSeq(s, a + 1, Min(b, Len(s)))

\* sub occurs in s at zero-based offset i
StartsAt(s, sub, i) ==
    /\ i >= 0
    /\ i + Len(sub) <= Len(s)
    /\ \A k \in 1..Len(sub) : s[i + k] = sub[k]

\* s.find(sub, start): lowest offset >= start, -1 when there is none
Find(s, sub, start) ==
    LET hits == {i \in start..(Len(s) - Len(sub)) : StartsAt(s, sub, i)}
    IN  IF hits = {} THEN -1
        ELSE CHOOSE i \in hits : \A j \in hits : i <= j

\* s.rfind(' ', start, end): highest offset in [start, end) holding a space
RFindSpace(s, start, end) ==
    LET hits == {i \in start..(Min(end, Len(s)) - 1) : s[i + 1] = SP}
    IN  IF hits = {} THEN -1
        ELSE CHOOSE i \in hits : \A j \in hits : i >= j

\* the text as it is, whitespace at its ends included
Unstripped(s) == s

\* s.strip(): leading and trailing whitespace removed
Strip(s) ==
    LET keep == {i \in 1..Len(s) : s[i] \notin Spaces}
    IN  IF keep = {} THEN <<>>
        ELSE LET lo == CHOOSE i \in keep : \A j \in keep : i <= j
                 hi == CHOOSE i \in keep : \A j \in keep : i >= j
             IN  SubSeq(s, lo, hi)

\* s.split(sep) for a non-empty sep: empty pieces are kept
RECURSIVE Split(_, _)
Split(s, sep) ==
    LET i == Find(s, sep, 0)
    IN  IF i = -1 THEN <<s>>
        ELSE <<Slice(s, 0, i)>> \o Split(Slice(s, i + Len(sep), Len(s)), sep)

\* sep.join(parts)
RECURSIVE Join(_, _)
Join(sep, parts) ==
    IF Len(parts) = 0 THEN <<>>
    ELSE IF Len(parts) = 1 THEN parts[1]
    ELSE parts[1] \o sep \o Join(sep, Tail(parts))

-----------------------------------------------------------------------------
(* Tokenizer adapter: len(encoding.encode(text)) for cl100k_base.          *)
(* The encoding first cuts the text with its pre-tokenisation pattern      *)
(*   [^\r\n\p{L}\p{N}]?\p{L}+ | ?[^\s\p{L}\p{N}]+[\r\n]* | \s*[\r\n]+      *)
(*   | \s+(?!\S) | \s+                                                     *)
(* (the alternatives that can match over Alphabet) and then encodes each   *)
(* piece; the short pieces that arise here are single vocabulary entries,  *)
(* so the count is the number of pieces.                                   *)

\* last index j >= i - 1 with s[i..j] all in set (one-based)
RunEnd(s, i, set) ==
    CHOOSE j \in (i - 1)..Len(s) :
        /\ \A k \in i..j : s[k] \in set
        /\ (j = Len(s) \/ s[j + 1] \notin set)

\* one-based index of the last character of the piece starting at i
TokEnd(s, i) ==
    LET c == s[i]
        n == Len(s)
        nextIn(set) == i < n /\ s[i + 1] \in set
    IN  IF c \in Letters THEN RunEnd(s, i, Letters)
        ELSE IF c # NL /\ nextIn(Letters) THEN RunEnd(s, i + 1, Letters)
        ELSE IF c \in Puncts THEN RunEnd(s, RunEnd(s, i, Puncts) + 1, {NL})
        ELSE IF c = SP /\ nextIn(Puncts)
            THEN RunEnd(s, RunEnd(s, i + 1, Puncts) + 1, {NL})
        ELSE LET e == RunEnd(s, i, Spaces)
                 nls == {k \in i..e : s[k] = NL}
             IN  IF nls # {} THEN CHOOSE k \in nls : \A j \in nls : k >= j
                 ELSE IF e = n THEN e
                 ELSE IF e > i THEN e - 1
                 ELSE e

RECURSIVE CountFrom(_, _)
CountFrom(s, i) ==
    IF i > Len(s) THEN 0 ELSE 1 + CountFrom(s, TokEnd(s, i) + 1)

count_tokens(s) == CountFrom(s, 1)

-----------------------------------------------------------------------------
(* TextChunker *)

Strategies == {"fixed_size", "semantic", "recursive", "sentence"}

\* metadata is the document's metadata plus the strategy tag; the document's
\* part is copied unchanged and only the tag is kept here
Chunk(t, idx, doc, start, end, tokens, tag) ==
    [text |-> t, chunk_index |-> idx, doc_id |-> doc, start_char |-> start,
     end_char |-> end, token_count |-> tokens, strategy |-> tag]

(* _chunk_fixed_size: a window of chunk_size characters *)

\* end of the window that starts at start, pulled back to the last space
FixedEnd(t, start, size) ==
    LET end == start + size
        last_space == RFindSpace(t, start, end)
    IN  IF end < Len(t) /\ last_space > start THEN last_space ELSE end

\* the next window starts at end - overlap whatever the current start is
FixedNextStartUnguarded(start, end, overlap) == end - overlap

\* start of the next window
FixedNextStart(start, end, overlap) ==
    IF end - overlap > start THEN end - overlap ELSE end

RECURSIVE FixedLoop(_, _, _, _, _, _, _)
FixedLoop(t, doc, size, overlap, start, chunk_index, acc) ==
    IF ~(start < Len(t)) THEN acc
    ELSE LET end == FixedEnd(t, start, size)
             chunk_text == Strip(Slice(t, start, end))
             next == FixedNextStart(start, end, overlap)
         IN  IF chunk_text # <<>>
             THEN FixedLoop(t, doc, size, overlap, next, chunk_index + 1,
                      Append(acc, Chunk(chunk_text, chunk_index, doc, start, end,
                                        count_tokens(chunk_text), "fixed_size")))
             ELSE FixedLoop(t, doc, size, overlap, next, chunk_index, acc)

chunk_fixed_size(t, doc, size, overlap) ==
    FixedLoop(t, doc, size, overlap, 0, 0, <<>>)

(* _chunk_recursive *)

separators == << <<NL, NL>>, <<NL>>, <<DOT, SP>>, <<SP>> >>

\* the group current_chunk is closed and thrown away
DiscardGroup(result, separator, current_chunk) == result

\* the group current_chunk is closed: separator.join(current_chunk) is emitted
EmitGroup(result, separator, current_chunk) ==
    Append(result, Join(separator, current_chunk))

\* a piece fits the running group when the sum of the pieces' token counts
\* stays within the budget
FitsGroup(current_size, split_tokens, size) ==
    ~(current_size + split_tokens > size)

RECURSIVE split_text(_, _, _)
RECURSIVE SplitLoop(_, _, _, _, _, _, _)

\* the for loop of _split_text over splits[k..], with its three locals
SplitLoop(splits, k, seps, size, result, current_chunk, current_size) ==
    IF k > Len(splits)
    THEN IF current_chunk # <<>>
         THEN EmitGroup(result, seps[1], current_chunk)
         ELSE result
    ELSE
      LET split == splits[k]
          split_tokens == count_tokens(split)
      IN  IF split_tokens > size
          THEN LET flushed == IF current_chunk # <<>>
                              THEN EmitGroup(result, seps[1], current_chunk)
                              ELSE result
               IN  SplitLoop(splits, k + 1, seps, size,
                             flushed \o split_text(split, Tail(seps), size),
                             <<>>, 0)
          ELSE IF ~FitsGroup(current_size, split_tokens, size)
          THEN IF current_chunk # <<>>
               THEN SplitLoop(splits, k + 1, seps, size,
                              EmitGroup(result, seps[1], current_chunk),
                              <<split>>, split_tokens)
               ELSE SplitLoop(splits, k + 1, seps, size, result,
                              current_chunk, current_size)
          ELSE SplitLoop(splits, k + 1, seps, size, result,
                         Append(current_chunk, split),
                         current_size + split_tokens)

split_text(t, seps, size) ==
    IF seps = <<>> \/ count_tokens(t) <= size THEN <<t>>
    ELSE SplitLoop(Split(t, seps[1]), 1, seps, size, <<>>, <<>>, 0)

\* chunk_index of the k-th element (one-based) of text_chunks
RecursiveIndex(k, emitted) == k - 1

RECURSIVE RecursiveLoop(_, _, _, _, _, _)
RecursiveLoop(t, doc, text_chunks, k, char_position, acc) ==
    IF k > Len(text_chunks) THEN acc
    ELSE LET chunk_text == Strip(text_chunks[k])
         IN  IF chunk_text = <<>>
             THEN RecursiveLoop(t, doc, text_chunks, k + 1, char_position, acc)
             ELSE LET start_char == Find(t, chunk_text, char_position)
                      end_char == start_char + Len(chunk_text)
                  IN  RecursiveLoop(t, doc, text_chunks, k + 1, end_char,
                          Append(acc, Chunk(chunk_text,
                                            RecursiveIndex(k, Len(acc)),
                                            doc, start_char, end_char,
                                            count_tokens(chunk_text),
                                            "recursive")))

chunk_recursive(t, doc, size) ==
    RecursiveLoop(t, doc, split_text(t, separators, size), 1, 0, <<>>)

(* _chunk_semantic *)

\* the chunks of the recursive strategy under a tag of their own
SemanticTagged(t, doc, size) ==
    [k \in 1..Len(chunk_recursive(t, doc, size)) |->
        [chunk_recursive(t, doc, size)[k] EXCEPT !.strategy = "semantic"]]

\* return self._chunk_recursive(text, doc_id, metadata)
chunk_semantic(t, doc, size) == chunk_recursive(t, doc, size)

(* _chunk_by_sentence *)

\* re.split(r'(?<=[.!?])\s+', text): cut at each run of whitespace that
\* follows a sentence-ending character
RECURSIVE SentenceSplit(_)
SentenceSplit(s) ==
    LET cuts == {i \in 1..(Len(s) - 1) : s[i] \in Puncts /\ s[i + 1] \in Spaces}
    IN  IF cuts = {} THEN <<s>>
        ELSE LET i == CHOOSE c \in cuts : \A d \in cuts : c <= d
                 e == RunEnd(s, i + 1, Spaces)
             IN  <<SubSeq(s, 1, i)>> \o SentenceSplit(SubSeq(s, e + 1, Len(s)))

\* the sentence as its own single word
WholeSentence(s) == <<s>>

\* sentence.split(): the maximal runs of non-whitespace characters
RECURSIVE Words(_)
Words(s) ==
    LET keep == {i \in 1..Len(s) : s[i] \notin Spaces}
    IN  IF keep = {} THEN <<>>
        ELSE LET lo == CHOOSE i \in keep : \A j \in keep : i <= j
                 hi == RunEnd(s, lo, Alphabet \ Spaces)
             IN  <<SubSeq(s, lo, hi)>> \o Words(SubSeq(s, hi + 1, Len(s)))

\* one Chunk is appended: " ".join(parts) located from char_position on,
\* with the running token sum as its token_count
SentenceEmit(t, doc, st, parts, tokens) ==
    LET chunk_text == Join(<<SP>>, parts)
        start_char == Find(t, chunk_text, st.char_position)
        end_char == start_char + Len(chunk_text)
    IN  [chunks |-> Append(st.chunks,
                       Chunk(chunk_text, st.chunk_index, doc, start_char, end_char,
                             tokens, "sentence")),
         chunk_index |-> st.chunk_index + 1,
         char_position |-> end_char]

\* the inner loop over the words of a sentence that exceeds the budget;
\* yields the emitter state and the last word group with its token sum
RECURSIVE WordLoop(_, _, _, _, _, _, _, _)
WordLoop(t, doc, size, words, w, st, temp_chunk, temp_tokens) ==
    IF w > Len(words)
    THEN [st |-> st, temp_chunk |-> temp_chunk, temp_tokens |-> temp_tokens]
    ELSE LET word_tokens == count_tokens(words[w])
         IN  IF temp_tokens + word_tokens > size
             THEN WordLoop(t, doc, size, words, w + 1,
                      IF temp_chunk # <<>>
                      THEN SentenceEmit(t, doc, st, temp_chunk, temp_tokens)
                      ELSE st,
                      <<words[w]>>, word_tokens)
             ELSE WordLoop(t, doc, size, words, w + 1, st,
                      Append(temp_chunk, words[w]), temp_tokens + word_tokens)

RECURSIVE SentenceLoop(_, _, _, _, _, _, _, _)
SentenceLoop(t, doc, size, sentences, k, st, current_chunk, current_tokens) ==
    IF k > Len(sentences)
    THEN IF current_chunk # <<>>
         THEN SentenceEmit(t, doc, st, current_chunk, current_tokens).chunks
         ELSE st.chunks
    ELSE
      LET sentence == Strip(sentences[k])
          sentence_tokens == count_tokens(sentence)
      IN  IF sentence = <<>>
          THEN SentenceLoop(t, doc, size, sentences, k + 1, st,
                            current_chunk, current_tokens)
          ELSE IF sentence_tokens > size
          THEN LET st1 == IF current_chunk # <<>>
                          THEN SentenceEmit(t, doc, st, current_chunk, current_tokens)
                          ELSE st
                   r == WordLoop(t, doc, size, Words(sentence), 1, st1, <<>>, 0)
               IN  IF r.temp_chunk # <<>>
                   THEN SentenceLoop(t, doc, size, sentences, k + 1, r.st,
                                     r.temp_chunk, r.temp_tokens)
                   ELSE SentenceLoop(t, doc, size, sentences, k + 1, r.st, <<>>, 0)
          ELSE IF current_tokens + sentence_tokens > size
          THEN SentenceLoop(t, doc, size, sentences, k + 1,
                   IF current_chunk # <<>>
                   THEN SentenceEmit(t, doc, st, current_chunk, current_tokens)
                   ELSE st,
                   <<sentence>>, sentence_tokens)
          ELSE SentenceLoop(t, doc, size, sentences, k + 1, st,
                   Append(current_chunk, sentence),
                   current_tokens + sentence_tokens)

chunk_by_sentence(t, doc, size) ==
    SentenceLoop(t, doc, size, SentenceSplit(t), 1,
                 [chunks |-> <<>>, chunk_index |-> 0, char_position |-> 0],
                 <<>>, 0)

(* chunk_document: dispatch on the strategy *)
chunk_document(t, doc, strat, size, overlap) ==
    CASE strat = "fixed_size" -> chunk_fixed_size(t, doc, size, overlap)
      [] strat = "semantic"   -> chunk_semantic(t, doc, size)
      [] strat = "recursive"  -> chunk_recursive(t, doc, size)
      [] strat = "sentence"   -> chunk_by_sentence(t, doc, size)

-----------------------------------------------------------------------------
(* Values of the components that a specification does not exercise *)

NoResult == [none |-> TRUE]

WindowIdle ==
    /\ w_start = 0
    /\ w_index = 0
    /\ wpc = "idle"

ChunkIdle ==
    /\ WindowIdle
    /\ text = <<>>
    /\ doc_id = <<>>
    /\ strategy = "recursive"
    /\ chunk_size = 1
    /\ chunk_overlap = 0
    /\ chunks = <<>>
    /\ cpc = "idle"

EnrichIdle ==
    /\ use_provider = "openai"
    /\ e_chunk = NoResult
    /\ epc = "idle"
    /\ attempt_number = 0
    /\ llm_calls = 0
    /\ responses = <<>>
    /\ delays = <<>>
    /\ e_result = NoResult
    /\ e_raised = FALSE

GenIdle ==
    /\ g_chunks = <<>>
    /\ g_i = 0
    /\ enriched_chunks = <<>>
    /\ gpc = "idle"
    /\ g_answers = <<>>

RunIdle ==
    /\ r_docs = <<>>
    /\ r_run = 0
    /\ r_pos = 0
    /\ r_store = {}
    /\ r_upserted = {}
    /\ r_after = <<>>

EmbedIdle ==
    /\ m_entry = "none"
    /\ emb_model = "text-embedding-3-large"
    /\ service_len = 0
    /\ m_chunks = <<>>
    /\ use_enhanced_text = TRUE
    /\ batch_size = 0
    /\ mpc = "idle"
    /\ m_texts = <<>>
    /\ group_i = 0
    /\ item_j = 0
    /\ item_attempt = 0
    /\ all_embeddings = <<>>
    /\ emb_calls = <<>>
    /\ vectors = <<>>
    /\ m_raised = FALSE

NoStats ==
    [total_documents |-> 0, successful |-> 0, failed |-> 0,
     total_chunks |-> 0, total_vectors |-> 0, errors |-> <<>>]

IndexIdle ==
    /\ table = <<>>
    /\ status = <<>>
    /\ store = <<>>
    /\ update_oracle_status = TRUE
    /\ use_llm_context = TRUE
    /\ bpc = "idle"
    /\ b_raised = FALSE
    /\ documents = <<>>
    /\ di = 0
    /\ stats = NoStats
    /\ dpc = "idle"
    /\ n_chunks = 0
    /\ n_placeholders = 0
    /\ n_enriched = 0
    /\ n_embeddings = 0
    /\ n_zero = 0
    /\ n_vectors = 0
    /\ total_upserted = 0
    /\ d_error = "none"
    /\ trace = <<>>
    /\ processed = <<>>
    /\ outcomes = <<>>

-----------------------------------------------------------------------------
(* Specification of the chunker: every text up to MaxLen characters under   *)
(* every strategy and every small configuration.                            *)

RECURSIVE TextsOfLen(_)
TextsOfLen(n) ==
    IF n = 0 THEN {<<>>}
    ELSE {Append(s, c) : s \in TextsOfLen(n - 1), c \in Alphabet}

Texts == UNION {TextsOfLen(n) : n \in 0..MaxLen}

\* str(doc_id) of the document being chunked
DocIds == {<<"7">>}

ChunkInit ==
    /\ RunIdle
    /\ EnrichIdle
    /\ GenIdle
    /\ EmbedIdle
    /\ IndexIdle
    /\ WindowIdle
    /\ text \in Texts
    /\ doc_id \in DocIds
    /\ strategy \in Strategies
    /\ chunk_size \in 1..MaxChunkSize
    /\ chunk_overlap \in 0..MaxOverlap
    /\ chunks = <<>>
    /\ cpc = "start"

ChunkDocument ==
    /\ cpc = "start"
    /\ chunks' = chunk_document(text, doc_id, strategy, chunk_size,
                                chunk_overlap)
    /\ cpc' = "done"
    /\ UNCHANGED <<text, doc_id, strategy, chunk_size, chunk_overlap>>
    /\ UNCHANGED windowVars
    /\ UNCHANGED <<enrichVars, genVars, runVars, embedVars, indexVars>>

ChunkNext == ChunkDocument

SpecChunk == ChunkInit /\ [][ChunkNext]_vars

\* a text of two paragraphs: a first one, a blank line, a second one
ParagraphInit ==
    /\ RunIdle
    /\ EnrichIdle
    /\ GenIdle
    /\ EmbedIdle
    /\ IndexIdle
    /\ WindowIdle
    /\ \E m \in 1..MaxFirstLen, n \in 1..MaxSecondLen :
          \E p \in TextsOfLen(m), q \in TextsOfLen(n) :
              text = p \o <<NL, NL>> \o q
    /\ doc_id \in DocIds
    /\ strategy = "recursive"
    /\ chunk_size \in 1..MaxChunkSize
    /\ chunk_overlap = 0
    /\ chunks = <<>>
    /\ cpc = "start"

SpecParagraphs == ParagraphInit /\ [][ChunkNext]_vars

-----------------------------------------------------------------------------
(* TextChunker._chunk_fixed_size, its while loop one iteration at a time *)

WindowInit ==
    /\ RunIdle
    /\ EnrichIdle
    /\ GenIdle
    /\ EmbedIdle
    /\ IndexIdle
    /\ \E n \in 0..MaxWindowLen : text \in TextsOfLen(n)
    /\ doc_id \in DocIds
    /\ strategy = "fixed_size"
    /\ chunk_size \in 1..MaxChunkSize
    /\ chunk_overlap \in 0..MaxOverlap
    /\ chunks = <<>>
    /\ cpc = "idle"
    /\ w_start = 0
    /\ w_index = 0
    /\ wpc = "loop"

\* one iteration of while start < len(text)
WindowIterate ==
    /\ wpc = "loop"
    /\ w_start < Len(text)
    /\ LET end == FixedEnd(text, w_start, chunk_size)
           chunk_text == Strip(Slice(text, w_start, end))
       IN  /\ IF chunk_text # <<>>
              THEN /\ chunks' = Append(chunks,
                          Chunk(chunk_text, w_index, doc_id, w_start, end,
                                count_tokens(chunk_text), "fixed_size"))
                   /\ w_index' = w_index + 1
              ELSE UNCHANGED <<chunks, w_index>>
           /\ w_start' = FixedNextStart(w_start, end, chunk_overlap)
    /\ UNCHANGED <<text, doc_id, strategy, chunk_size, chunk_overlap, cpc, wpc>>
    /\ UNCHANGED <<enrichVars, genVars, runVars, embedVars, indexVars>>

\* the loop condition fails: return chunks
WindowReturn ==
    /\ wpc = "loop"
    /\ ~(w_start < Len(text))
    /\ wpc' = "done"
    /\ UNCHANGED <<text, doc_id, strategy, chunk_size, chunk_overlap, chunks,
                   cpc, w_start, w_index>>
    /\ UNCHANGED <<enrichVars, genVars, runVars, embedVars, indexVars>>

WindowNext == WindowIterate \/ WindowReturn

SpecWindow == WindowInit /\ [][WindowNext]_vars

\* the loop is one thread of control that is always scheduled
FairSpecWindow == SpecWindow /\ WF_vars(WindowNext)

-----------------------------------------------------------------------------
(* ContextGenerator *)

(* Python values that the text-generation service can put in a field *)
PyStr(x) == [t |-> "str", v |-> x]
PyList(x) == [t |-> "list", v |-> x]
PyNone == [t |-> "none", v |-> <<>>]

\* dict.get(key, default)
Get(d, key, default) == IF key \in DOMAIN d THEN d[key] ELSE default

\* str(value), as an f-string renders it
Format(x) ==
    IF x.t = "str" THEN x.v
    ELSE IF x.t = "none" THEN <<"None">>
    ELSE <<"[">> \o Join(<<",", SP>>, x.v) \o <<"]">>

\* a value that str.join and a for loop accept: a list of strings, or a
\* string (its characters are the items)
Iterable(x) == x.t \in {"list", "str"}
Items(x) == IF x.t = "list" THEN x.v ELSE [i \in 1..Len(x.v) |-> <<x.v[i]>>]

(* The retry policy of _call_openai and _call_anthropic:                   *)
(* @retry(stop=stop_after_attempt(3),                                      *)
(*        wait=wait_exponential(multiplier=1, min=2, max=10))              *)
(* with no retry predicate, so every exception of the call is retried.     *)
StopAfterAttempt == 3
WaitMultiplier == 1
WaitMin == 2
WaitMax == 10

\* a stop rule that allows one attempt more
StopRetryingLater(n) == n >= StopAfterAttempt + 1

\* stop_after_attempt: no attempt follows attempt number n
StopRetrying(n) == n >= StopAfterAttempt

\* wait_exponential: the sleep after failed attempt number n
WaitExponential(n) ==
    Max(WaitMin, Min(WaitMultiplier * 2 ^ (n - 1), WaitMax))

Providers == {"openai", "anthropic"}

(* What one invocation of the service yields: an exception, or a content.  *)
Contents == {"full", "empty", "badfields", "oddtypes", "list", "prose",
             "garbage"}
ServiceAnswers ==
    {[raises |-> TRUE, content |-> "none"]} \cup
    {[raises |-> FALSE, content |-> c] : c \in Contents}

FullContext ==
    [contextual_summary |-> PyStr(<<"S">>),
     key_concepts |-> PyList(<< <<"k1">>, <<"k2">> >>),
     keywords |-> PyList(<< <<"w1">> >>),
     topic |-> PyStr(<<"T">>),
     questions |-> PyList(<< <<"q1">> >>)]

\* a mapping whose key_concepts is null
BadContext == [FullContext EXCEPT !.key_concepts = PyNone]

\* a mapping whose contextual_summary is null and whose topic is a list
OddContext ==
    [FullContext EXCEPT !.contextual_summary = PyNone,
                        !.topic = PyList(<< <<"T1">>, <<"T2">> >>)]

Parsed(ok, mapping, value) == [ok |-> ok, mapping |-> mapping, value |-> value]
ParseError == Parsed(FALSE, FALSE, <<>>)

\* _call_openai: eval(content)
\*   "list"  is a literal that is no mapping; "prose" is an object
\*   surrounded by words, which is no expression
ParseOpenAI(content) ==
    CASE content = "full"      -> Parsed(TRUE, TRUE, FullContext)
      [] content = "empty"     -> Parsed(TRUE, TRUE, <<>>)
      [] content = "badfields" -> Parsed(TRUE, TRUE, BadContext)
      [] content = "oddtypes"  -> Parsed(TRUE, TRUE, OddContext)
      [] content = "list"      -> Parsed(TRUE, FALSE, <<>>)
      [] content = "prose"     -> ParseError
      [] content = "garbage"   -> ParseError

\* _call_anthropic: json.loads of the match of \{.*\}; ValueError without one
ParseAnthropic(content) ==
    CASE content = "full"      -> Parsed(TRUE, TRUE, FullContext)
      [] content = "empty"     -> Parsed(TRUE, TRUE, <<>>)
      [] content = "badfields" -> Parsed(TRUE, TRUE, BadContext)
      [] content = "oddtypes"  -> Parsed(TRUE, TRUE, OddContext)
      [] content = "list"      -> ParseError
      [] content = "prose"     -> Parsed(TRUE, TRUE, FullContext)
      [] content = "garbage"   -> ParseError

Parse(provider, content) ==
    IF provider = "openai" THEN ParseOpenAI(content) ELSE ParseAnthropic(content)

\* one attempt of _call_openai / _call_anthropic ends with an exception
AttemptRaises(provider, answer) ==
    answer.raises \/ ~Parse(provider, answer.content).ok

\* _create_enhanced_text raises: the context has no get, or a field that is
\* joined or iterated is not iterable
EnhancedTextRaises(p) ==
    \/ ~p.mapping
    \/ ~Iterable(Get(p.value, "key_concepts", PyList(<<>>)))
    \/ ~Iterable(Get(p.value, "questions", PyList(<<>>)))
    \/ ~Iterable(Get(p.value, "keywords", PyList(<<>>)))

\* _create_enhanced_text: the fixed layout around the chunk's text
create_enhanced_text(chunk, context) ==
    <<"CONTEXTO:", SP>>
    \o Format(Get(context, "contextual_summary", PyStr(<<>>)))
    \o <<NL, NL, "TOPICO:", SP>> \o Format(Get(context, "topic", PyStr(<<>>)))
    \o <<NL, NL, "CONCEITOS-CHAVE:", SP>>
    \o Join(<<",", SP>>, Items(Get(context, "key_concepts", PyList(<<>>))))
    \o <<NL, NL, "CONTEUDO:", NL>> \o chunk.text
    \o <<NL, NL, "PERGUNTAS RELACIONADAS:", NL>>
    \o Join(<<NL>>, [i \in 1..Len(Items(Get(context, "questions", PyList(<<>>))))
                       |-> <<"-", SP>> \o Items(Get(context, "questions", PyList(<<>>)))[i]])
    \o <<NL, NL, "PALAVRAS-CHAVE:", SP>>
    \o Join(<<",", SP>>, Items(Get(context, "keywords", PyList(<<>>))))

EnrichedChunk(chunk, summary, concepts, kws, topic, questions, enhanced) ==
    [original_chunk |-> chunk, contextual_summary |-> summary,
     key_concepts |-> concepts, keywords |-> kws, topic |-> topic,
     questions |-> questions, enhanced_text |-> enhanced]

\* the EnrichedChunk of the try block
Enriched(chunk, context) ==
    EnrichedChunk(chunk,
        Get(context, "contextual_summary", PyStr(<<>>)),
        Get(context, "key_concepts", PyList(<<>>)),
        Get(context, "keywords", PyList(<<>>)),
        Get(context, "topic", PyStr(<<>>)),
        Get(context, "questions", PyList(<<>>)),
        create_enhanced_text(chunk, context))

ErrorSummary == <<"Erro ao gerar contexto">>
UnknownTopic == <<"Desconhecido">>

\* a variant that leaves enhanced_text at the dataclass default ""
PlaceholderDefaultText(chunk) ==
    EnrichedChunk(chunk, PyStr(ErrorSummary), PyList(<<>>), PyList(<<>>),
                  PyStr(UnknownTopic), PyList(<<>>), <<>>)

\* the EnrichedChunk of the except block
Placeholder(chunk) ==
    EnrichedChunk(chunk, PyStr(ErrorSummary), PyList(<<>>), PyList(<<>>),
                  PyStr(UnknownTopic), PyList(<<>>), chunk.text)

\* except Exception: the placeholder is returned, nothing is raised
HandleEnrichError(chunk) == [result |-> Placeholder(chunk), raised |-> FALSE]

\* after a failed attempt: another attempt follows unless the stop rule says
\* no (every exception counts, a parse error as well as a service error)
RetryAfterFailure(provider, answer, n) == ~StopRetrying(n)

EChunks ==
    {Chunk(<<"a">>, 0, <<"7">>, 0, 1, 1, "recursive"),
     Chunk(<<"a", DOT>>, 1, <<"7">>, 2, 4, 2, "recursive")}

EnrichInit ==
    /\ RunIdle
    /\ ChunkIdle
    /\ GenIdle
    /\ EmbedIdle
    /\ IndexIdle
    /\ use_provider \in Providers
    /\ e_chunk \in EChunks
    /\ epc = "start"
    /\ attempt_number = 0
    /\ llm_calls = 0
    /\ responses = <<>>
    /\ delays = <<>>
    /\ e_result = NoResult
    /\ e_raised = FALSE

\* the prompt is formatted and the first attempt begins
EnrichStart ==
    /\ epc = "start"
    /\ epc' = "attempt"
    /\ attempt_number' = 1
    /\ UNCHANGED <<use_provider, e_chunk, llm_calls, responses, delays,
                   e_result, e_raised>>
    /\ UNCHANGED <<chunkVars, genVars, runVars, embedVars, indexVars>>

\* one attempt: the service is invoked and its answer parsed; then either
\* the result is built, or the retry layer decides
EnrichAttempt ==
    /\ epc = "attempt"
    /\ \E answer \in ServiceAnswers :
        /\ llm_calls' = llm_calls + 1
        /\ responses' = Append(responses, answer)
        /\ IF AttemptRaises(use_provider, answer)
           THEN IF RetryAfterFailure(use_provider, answer, attempt_number)
                THEN /\ epc' = "backoff"
                     /\ UNCHANGED <<e_result, e_raised>>
                ELSE /\ epc' = "done"
                     /\ e_result' = HandleEnrichError(e_chunk).result
                     /\ e_raised' = HandleEnrichError(e_chunk).raised
           ELSE LET p == Parse(use_provider, answer.content)
                IN  /\ epc' = "done"
                    /\ IF EnhancedTextRaises(p)
                       THEN /\ e_result' = HandleEnrichError(e_chunk).result
                            /\ e_raised' = HandleEnrichError(e_chunk).raised
                       ELSE /\ e_result' = Enriched(e_chunk, p.value)
                            /\ e_raised' = FALSE
    /\ UNCHANGED <<use_provider, e_chunk, attempt_number, delays>>
    /\ UNCHANGED <<chunkVars, genVars, runVars, embedVars, indexVars>>

\* the sleep between two attempts
EnrichBackoff ==
    /\ epc = "backoff"
    /\ delays' = Append(delays, WaitExponential(attempt_number))
    /\ attempt_number' = attempt_number + 1
    /\ epc' = "attempt"
    /\ UNCHANGED <<use_provider, e_chunk, llm_calls, responses, e_result,
                   e_raised>>
    /\ UNCHANGED <<chunkVars, genVars, runVars, embedVars, indexVars>>

EnrichNext == EnrichStart \/ EnrichAttempt \/ EnrichBackoff

SpecEnrich == EnrichInit /\ [][EnrichNext]_vars

-----------------------------------------------------------------------------
(* EmbeddingGenerator *)

Models == {"text-embedding-3-small", "text-embedding-3-large",
           "text-embedding-ada-002", "other"}

\* _get_embedding_dimension: the table, 1536 for a model it does not list
get_embedding_dimension(model) ==
    CASE model = "text-embedding-3-small" -> 1536
      [] model = "text-embedding-3-large" -> 3072
      [] model = "text-embedding-ada-002" -> 1536
      [] OTHER -> 1536

\* DocumentIndexer.__init__: PineconeClient(settings.pinecone, dimension=3072),
\* the dimension the index is created with
IndexDimension == 3072

\* the lengths the service may use: the model that answers need not be the
\* one the table was written for
ServiceLens == {get_embedding_dimension(m) : m \in Models}

\* batch_size of generate_embeddings_batch when the caller gives none
DefaultBatchSize == 100

\* text.replace("\n", " ").strip()
Clean(t) == Strip([i \in 1..Len(t) |-> IF t[i] = NL THEN SP ELSE t[i]])

\* an embedding: the text it was computed from and its length
Embedding(src, n) == [src |-> src, len |-> n, zero |-> FALSE]

\* a substitute that is the empty list
EmptyVector(n) == [src |-> <<>>, len |-> 0, zero |-> TRUE]

\* [0.0] * self.dimension
ZeroVector(dimension) == [src |-> <<>>, len |-> dimension, zero |-> TRUE]

\* num_batches = (len(texts) + batch_size - 1) // batch_size
NumBatches(n, size) == (n + size - 1) \div size

\* a loop whose groups begin one text late
StartIdxLate(i, size) == i * size + 1

\* start_idx and end_idx of group i
StartIdx(i, size) == i * size
EndIdx(i, size, n) == Min((i + 1) * size, n)

\* the enhanced text whatever the setting
TextAlwaysEnhanced(ec, enhanced) == ec.enhanced_text

\* the text that is embedded for an enriched chunk
TextForEmbedding(ec, enhanced) ==
    IF enhanced THEN ec.enhanced_text ELSE ec.original_chunk.text

TextCap == 1000
ConceptCap == 5
KeywordCap == 10
QuestionCap == 3

\* x[:n]
Take(x, n) == SubSeq(x, 1, Min(n, Len(x)))

PyInt(n) == [t |-> "int", v |-> <<n>>]

\* the metadata mapping of a Vector Record
Metadata(ec) ==
    [doc_id |-> PyStr(ec.original_chunk.doc_id),
     chunk_index |-> PyInt(ec.original_chunk.chunk_index),
     start_char |-> PyInt(ec.original_chunk.start_char),
     end_char |-> PyInt(ec.original_chunk.end_char),
     token_count |-> PyInt(ec.original_chunk.token_count),
     text |-> PyStr(Take(ec.original_chunk.text, TextCap)),
     contextual_summary |-> ec.contextual_summary,
     topic |-> ec.topic,
     key_concepts |->
         PyStr(Join(<<",", SP>>, Take(Items(ec.key_concepts), ConceptCap))),
     keywords |->
         PyStr(Join(<<",", SP>>, Take(Items(ec.keywords), KeywordCap))),
     questions |->
         PyStr(Join(<<SP, "|", SP>>, Take(Items(ec.questions), QuestionCap))),
     strategy |-> PyStr(<<ec.original_chunk.strategy>>)]

\* str(n) of a natural number: its decimal digits
RECURSIVE Str(_)
Str(n) == IF n < 10 THEN <<ToString(n)>>
          ELSE Str(n \div 10) \o <<ToString(n % 10)>>

\* an id that leaves the chunk index out
VectorIdOfDocument(doc, idx) == doc

\* f"{doc_id}_{chunk_index}"
VectorId(doc, idx) == doc \o <<"_">> \o Str(idx)

\* the record is built from whatever embedding it is given
VectorRecord(ec, embedding) ==
    [id |-> VectorId(ec.original_chunk.doc_id, ec.original_chunk.chunk_index),
     values |-> embedding,
     metadata |-> Metadata(ec)]

\* for enriched_chunk, embedding in zip(enriched_chunks, embeddings)
BuildVectors(ecs, embeddings) ==
    [k \in 1..Min(Len(ecs), Len(embeddings)) |-> VectorRecord(ecs[k], embeddings[k])]

\* the enriched chunks of one document: chunk k has chunk_index k - 1 and
\* the enrichment of chunk number failed (0: of none) gave the placeholder
EmbChunk(k) ==
    Chunk(<<"c", NL, ToString(k)>>, k - 1, <<"7">>, 4 * (k - 1), 4 * k - 1, 3,
          "recursive")

EnrichedList(n, failed) ==
    [k \in 1..n |-> IF k = failed THEN Placeholder(EmbChunk(k))
                    ELSE Enriched(EmbChunk(k), FullContext)]

Entries == {"create_vectors_batch", "generate_embeddings_batch",
            "create_vector_for_enriched_chunk"}

EmbedInit ==
    /\ RunIdle
    /\ ChunkIdle
    /\ EnrichIdle
    /\ GenIdle
    /\ IndexIdle
    /\ m_entry \in Entries
    /\ emb_model \in Models
    /\ service_len \in ServiceLens
    /\ \E n \in 0..MaxEmbChunks, failed \in 0..MaxEmbChunks :
        /\ failed <= n
        /\ m_entry = "create_vector_for_enriched_chunk" => n = 1
        /\ m_chunks = EnrichedList(n, failed)
    /\ use_enhanced_text \in BOOLEAN
    /\ batch_size \in IF m_entry = "generate_embeddings_batch"
                      THEN 1..MaxBatchSize ELSE {DefaultBatchSize}
    /\ mpc = "start"
    /\ m_texts = <<>>
    /\ group_i = 0
    /\ item_j = 0
    /\ item_attempt = 0
    /\ all_embeddings = <<>>
    /\ emb_calls = <<>>
    /\ vectors = <<>>
    /\ m_raised = FALSE

dimension == get_embedding_dimension(emb_model)

\* where the method goes once the loop over the groups has ended
AfterGroups(entry) == IF entry = "create_vectors_batch" THEN "build" ELSE "done"

\* where the loop over the groups goes after group i
AfterGroup(i, entry, n, size) ==
    IF i + 1 < NumBatches(n, size) THEN "group" ELSE AfterGroups(entry)

\* the texts are collected and the loop over the groups begins
EmbStart ==
    /\ mpc = "start"
    /\ m_texts' = [k \in 1..Len(m_chunks) |->
                      TextForEmbedding(m_chunks[k], use_enhanced_text)]
    /\ IF m_entry = "create_vector_for_enriched_chunk"
       THEN /\ mpc' = "item"
            /\ item_attempt' = 1
       ELSE /\ mpc' = IF NumBatches(Len(m_chunks), batch_size) = 0
                      THEN AfterGroups(m_entry) ELSE "group"
            /\ UNCHANGED item_attempt
    /\ UNCHANGED <<m_entry, emb_model, service_len, m_chunks,
                   use_enhanced_text, batch_size, group_i, item_j,
                   all_embeddings, emb_calls, vectors, m_raised>>
    /\ UNCHANGED <<chunkVars, enrichVars, genVars, runVars, indexVars>>

\* one iteration of the loop over the groups: one call for the whole group;
\* when it raises, the items of the group are retried one by one
EmbGroupCall ==
    /\ mpc = "group"
    /\ LET start_idx == StartIdx(group_i, batch_size)
           end_idx == EndIdx(group_i, batch_size, Len(m_texts))
       IN  \E raises \in BOOLEAN :
            /\ emb_calls' = Append(emb_calls,
                   [kind |-> "group", first |-> start_idx,
                    count |-> end_idx - start_idx, raised |-> raises])
            /\ IF raises
               THEN /\ mpc' = "item"
                    /\ item_j' = start_idx
                    /\ item_attempt' = 1
                    /\ UNCHANGED <<group_i, all_embeddings>>
               ELSE /\ all_embeddings' = all_embeddings \o
                        [k \in 1..(end_idx - start_idx) |->
                            Embedding(Clean(m_texts[start_idx + k]), service_len)]
                    /\ mpc' = AfterGroup(group_i, m_entry, Len(m_texts), batch_size)
                    /\ group_i' = group_i + 1
                    /\ UNCHANGED <<item_j, item_attempt>>
    /\ UNCHANGED <<m_entry, emb_model, service_len, m_chunks,
                   use_enhanced_text, batch_size, m_texts, vectors, m_raised>>
    /\ UNCHANGED <<chunkVars, enrichVars, genVars, runVars, indexVars>>

\* where the fallback goes after item j of group i
AfterItem(j, i, entry, n, size) ==
    IF entry = "create_vector_for_enriched_chunk" THEN "build"
    ELSE IF j + 1 < EndIdx(i, size, n) THEN "item"
    ELSE AfterGroup(i, entry, n, size)

\* one attempt of generate_embedding for texts[item_j]
EmbItemCall ==
    /\ mpc = "item"
    /\ LET single == m_entry = "create_vector_for_enriched_chunk"
           next == AfterItem(item_j, group_i, m_entry, Len(m_texts), batch_size)
           advance ==
               /\ mpc' = next
               /\ item_attempt' = 1
               /\ item_j' = IF next = "item" THEN item_j + 1 ELSE item_j
               /\ group_i' = IF next = "item" \/ single THEN group_i
                             ELSE group_i + 1
       IN  \E raises \in BOOLEAN :
            /\ emb_calls' = Append(emb_calls,
                   [kind |-> "item", first |-> item_j, count |-> 1,
                    raised |-> raises])
            /\ IF ~raises
               THEN /\ all_embeddings' = Append(all_embeddings,
                           Embedding(Clean(m_texts[item_j + 1]), service_len))
                    /\ advance
                    /\ UNCHANGED m_raised
               ELSE IF ~StopRetrying(item_attempt)
               THEN /\ mpc' = "backoff"
                    /\ UNCHANGED <<all_embeddings, item_attempt, item_j, group_i,
                                   m_raised>>
               ELSE IF single
               THEN \* the retry error leaves create_vector_for_enriched_chunk
                    /\ mpc' = "done"
                    /\ m_raised' = TRUE
                    /\ UNCHANGED <<all_embeddings, item_attempt, item_j, group_i>>
               ELSE \* except Exception as inner_e: the zero vector
                    /\ all_embeddings' = Append(all_embeddings, ZeroVector(dimension))
                    /\ advance
                    /\ UNCHANGED m_raised
    /\ UNCHANGED <<m_entry, emb_model, service_len, m_chunks,
                   use_enhanced_text, batch_size, m_texts, vectors>>
    /\ UNCHANGED <<chunkVars, enrichVars, genVars, runVars, indexVars>>

\* the sleep between two attempts of generate_embedding
EmbItemBackoff ==
    /\ mpc = "backoff"
    /\ item_attempt' = item_attempt + 1
    /\ mpc' = "item"
    /\ UNCHANGED <<m_entry, emb_model, service_len, m_chunks,
                   use_enhanced_text, batch_size, m_texts, group_i, item_j,
                   all_embeddings, emb_calls, vectors, m_raised>>
    /\ UNCHANGED <<chunkVars, enrichVars, genVars, runVars, indexVars>>

\* the Vector Records are built and returned
EmbBuild ==
    /\ mpc = "build"
    /\ vectors' = BuildVectors(m_chunks, all_embeddings)
    /\ mpc' = "done"
    /\ UNCHANGED <<m_entry, emb_model, service_len, m_chunks,
                   use_enhanced_text, batch_size, m_texts, group_i, item_j,
                   item_attempt, all_embeddings, emb_calls, m_raised>>
    /\ UNCHANGED <<chunkVars, enrichVars, genVars, runVars, indexVars>>

EmbedNext ==
    EmbStart \/ EmbGroupCall \/ EmbItemCall \/ EmbItemBackoff \/ EmbBuild

SpecEmbed == EmbedInit /\ [][EmbedNext]_vars

-----------------------------------------------------------------------------
(* ContextGenerator.generate_contexts_batch *)

GenInit ==
    /\ RunIdle
    /\ ChunkIdle
    /\ EmbedIdle
    /\ IndexIdle
    /\ use_provider \in Providers
    /\ e_chunk = NoResult
    /\ epc = "idle"
    /\ attempt_number = 0
    /\ llm_calls = 0
    /\ responses = <<>>
    /\ delays = <<>>
    /\ e_result = NoResult
    /\ e_raised = FALSE
    /\ \E n \in 0..MaxGenChunks : g_chunks = [k \in 1..n |-> EmbChunk(k)]
    /\ g_i = 1
    /\ enriched_chunks = <<>>
    /\ gpc = "loop"
    /\ g_answers = <<>>

\* for chunk in iterator: generate_context_for_chunk(chunk, ...) is called
GenCall ==
    /\ gpc = "loop"
    /\ g_i <= Len(g_chunks)
    /\ gpc' = "call"
    /\ e_chunk' = g_chunks[g_i]
    /\ epc' = "start"
    /\ attempt_number' = 0
    /\ llm_calls' = 0
    /\ responses' = <<>>
    /\ delays' = <<>>
    /\ e_result' = NoResult
    /\ e_raised' = FALSE
    /\ UNCHANGED <<use_provider, g_chunks, g_i, enriched_chunks, g_answers>>
    /\ UNCHANGED <<chunkVars, runVars, embedVars, indexVars>>

\* a loop that leaves out the chunks whose enrichment failed
AppendUnlessPlaceholder(list, item) ==
    IF item.topic = PyStr(UnknownTopic) THEN list ELSE Append(list, item)

\* enriched_chunks.append(enriched_chunk)
AppendEnriched(list, item) == Append(list, item)

\* the call has returned: its result is appended and the loop goes on; an
\* exception of the call would leave generate_contexts_batch
GenAppend ==
    /\ gpc = "call"
    /\ epc = "done"
    /\ IF e_raised
       THEN /\ gpc' = "raised"
            /\ UNCHANGED <<enriched_chunks, g_i>>
       ELSE /\ gpc' = "loop"
            /\ enriched_chunks' = AppendEnriched(enriched_chunks, e_result)
            /\ g_i' = g_i + 1
    /\ g_answers' = Append(g_answers, responses[Len(responses)])
    /\ epc' = "idle"
    /\ UNCHANGED <<use_provider, e_chunk, attempt_number, llm_calls, responses,
                   delays, e_result, e_raised, g_chunks>>
    /\ UNCHANGED <<chunkVars, runVars, embedVars, indexVars>>

\* return enriched_chunks
GenReturn ==
    /\ gpc = "loop"
    /\ g_i > Len(g_chunks)
    /\ gpc' = "done"
    /\ UNCHANGED <<g_chunks, g_i, enriched_chunks, g_answers>>
    /\ UNCHANGED <<chunkVars, enrichVars, runVars, embedVars, indexVars>>

GenNext ==
    \/ GenCall \/ EnrichStart \/ EnrichAttempt \/ EnrichBackoff
    \/ GenAppend \/ GenReturn

SpecGen == GenInit /\ [][GenNext]_vars

-----------------------------------------------------------------------------
(* The same documents indexed twice: index_document without LLM context and *)
(* with no collaborator failing, run over two documents and then over both  *)
(* again; the texts and the chunking configuration stay as they are.        *)

\* EnrichedChunk(original_chunk=chunk, contextual_summary="", ...)
PlainEnriched(chunk) ==
    EnrichedChunk(chunk, PyStr(<<>>), PyList(<<>>), PyList(<<>>), PyStr(<<>>),
                  PyList(<<>>), chunk.text)

\* index.upsert(vectors=...): a record replaces the one that has its id
Upsert(held, records) ==
    LET ids == {records[k].id : k \in 1..Len(records)}
        last == {k \in 1..Len(records) :
                    \A j \in (k + 1)..Len(records) : records[j].id # records[k].id}
    IN  {r \in held : r.id \notin ids} \cup {records[k] : k \in last}

\* the Vector Records index_document builds from the chunks of a document
VectorsOfChunks(cs) ==
    BuildVectors([k \in 1..Len(cs) |-> PlainEnriched(cs[k])],
                 [k \in 1..Len(cs) |->
                     Embedding(Clean(cs[k].text),
                               get_embedding_dimension("text-embedding-3-large"))])

\* str(doc_id) of the rows: ids with and without the separator in them
RunDocIds == {<<"7">>, <<"7", "_", "1">>}

RunRuns == 2

RunInit ==
    /\ EnrichIdle
    /\ GenIdle
    /\ EmbedIdle
    /\ IndexIdle
    /\ WindowIdle
    /\ \E n \in 0..MaxRunLen : text \in TextsOfLen(n)
    /\ doc_id = <<>>
    /\ strategy \in Strategies
    /\ chunk_size \in 1..MaxChunkSize
    /\ chunk_overlap = 0
    /\ chunks = <<>>
    /\ cpc = "idle"
    /\ r_docs \in {<<a, b>> : a \in RunDocIds, b \in RunDocIds}
    /\ r_run = 1
    /\ r_pos = 1
    /\ r_store = {}
    /\ r_upserted = {}
    /\ r_after = <<>>

\* index_document for the document at r_pos, up to the chunking
RunChunk ==
    /\ r_run <= RunRuns
    /\ r_pos <= Len(r_docs)
    /\ cpc = "idle"
    /\ doc_id' = r_docs[r_pos]
    /\ chunks' = chunk_document(text, r_docs[r_pos], strategy, chunk_size,
                                chunk_overlap)
    /\ cpc' = "done"
    /\ UNCHANGED <<text, strategy, chunk_size, chunk_overlap, windowVars>>
    /\ UNCHANGED <<enrichVars, genVars, runVars, embedVars, indexVars>>

\* index_document from the wrapping of the chunks to the upsert
RunUpsert ==
    /\ cpc = "done"
    /\ r_store' = Upsert(r_store, VectorsOfChunks(chunks))
    /\ r_upserted' = r_upserted \cup
           {[id |-> VectorsOfChunks(chunks)[k].id,
             doc_id |-> chunks[k].doc_id,
             chunk_index |-> chunks[k].chunk_index] : k \in 1..Len(chunks)}
    /\ r_pos' = r_pos + 1
    /\ doc_id' = <<>>
    /\ chunks' = <<>>
    /\ cpc' = "idle"
    /\ UNCHANGED <<r_docs, r_run, r_after>>
    /\ UNCHANGED <<text, strategy, chunk_size, chunk_overlap, windowVars>>
    /\ UNCHANGED <<enrichVars, genVars, embedVars, indexVars>>

\* one run over the documents has ended
RunEnds ==
    /\ r_run <= RunRuns
    /\ r_pos > Len(r_docs)
    /\ r_after' = Append(r_after, {r.id : r \in r_store})
    /\ r_run' = r_run + 1
    /\ r_pos' = 1
    /\ UNCHANGED <<r_docs, r_store, r_upserted>>
    /\ UNCHANGED <<chunkVars, enrichVars, genVars, embedVars, indexVars>>

RunNext == RunChunk \/ RunUpsert \/ RunEnds

SpecRun == RunInit /\ [][RunNext]_vars

(* The same documents indexed again after their text has changed: between   *)
(* two runs the text is cut to a proper prefix or gets one more character.  *)
RunEdit ==
    /\ r_run \in 2..RunRuns
    /\ r_pos = 1
    /\ cpc = "idle"
    /\ \/ \E n \in 0..(Len(text) - 1) : text' = SubSeq(text, 1, n)
       \/ /\ Len(text) < MaxRunLen
          /\ \E c \in Alphabet : text' = Append(text, c)
    /\ UNCHANGED runVars
    /\ UNCHANGED <<doc_id, strategy, chunk_size, chunk_overlap, chunks, cpc,
                   windowVars>>
    /\ UNCHANGED <<enrichVars, genVars, embedVars, indexVars>>

SpecEdit == RunInit /\ [][RunNext \/ RunEdit]_vars

-----------------------------------------------------------------------------
(* DocumentIndexer *)

\* batch_size=100 of the upsert_batch call
UpsertBatchSize == 100

\* The rows differ in what their text makes of the run:
\*   gone     the row is no longer there when index_document fetches it
\*   empty    the text field is the empty string
\*   blank    the text is whitespace only
\*   special  the text holds a special token the tokenizer refuses to encode
\*   short    a text of one chunk
\*   long     a text of one chunk more than an upsert batch holds
DocKinds == {"gone", "empty", "blank", "special", "short", "long"}

LongChunks == UpsertBatchSize + 1

\* document.get(text_field, ""), spelled out where the chunker is run on it
DocText(kind) ==
    CASE kind = "empty" -> <<>>
      [] kind = "blank" -> <<SP, NL, SP>>
      [] kind = "short" -> <<"a">>
      [] OTHER -> <<kind>>

\* len(chunks) of text_chunker.chunk_document(text, doc_id=str(doc_id))
ChunkCount(doc) ==
    IF doc.kind = "long" THEN LongChunks
    ELSE Len(chunk_document(DocText(doc.kind), <<ToString(doc.id)>>,
                            "recursive", MaxChunkSize, 0))

docLocals == <<n_chunks, n_placeholders, n_enriched, n_embeddings, n_zero,
               n_vectors, total_upserted>>
settingVars == <<table, update_oracle_status, use_llm_context>>
batchVars == <<bpc, b_raised, documents, di, stats>>

IndexInit ==
    /\ RunIdle
    /\ ChunkIdle
    /\ EnrichIdle
    /\ GenIdle
    /\ EmbedIdle
    /\ \E n \in 0..MaxDocs : \E kinds \in [1..n -> DocKinds] :
        /\ table = [i \in 1..n |-> [id |-> i, kind |-> kinds[i]]]
        /\ status = [i \in 1..n |-> "pending"]
        /\ store = [i \in 1..n |-> {}]
    /\ update_oracle_status \in BOOLEAN
    /\ use_llm_context \in BOOLEAN
    /\ bpc = "count"
    /\ b_raised = FALSE
    /\ documents = <<>>
    /\ di = 0
    /\ stats = NoStats
    /\ dpc = "idle"
    /\ n_chunks = 0
    /\ n_placeholders = 0
    /\ n_enriched = 0
    /\ n_embeddings = 0
    /\ n_zero = 0
    /\ n_vectors = 0
    /\ total_upserted = 0
    /\ d_error = "none"
    /\ trace = <<>>
    /\ processed = <<>>
    /\ outcomes = <<>>

(* index_all_documents *)

\* total_docs = self.oracle_client.count_documents(filters)
BatchCount ==
    /\ bpc = "count"
    /\ \E raises \in BOOLEAN :
        IF raises THEN bpc' = "done" /\ b_raised' = TRUE
        ELSE bpc' = "fetch" /\ UNCHANGED b_raised
    /\ UNCHANGED <<documents, di, stats, dpc, d_error, status, store, trace,
                   processed, outcomes>>
    /\ UNCHANGED <<settingVars, docLocals>>
    /\ UNCHANGED <<chunkVars, enrichVars, genVars, runVars, embedVars>>

\* the statistics mapping before the loop
NewStats(n) == [NoStats EXCEPT !.total_documents = n]

\* documents = self.oracle_client.fetch_documents(...), then the statistics
BatchFetch ==
    /\ bpc = "fetch"
    /\ \E raises \in BOOLEAN :
        IF raises
        THEN /\ bpc' = "done"
             /\ b_raised' = TRUE
             /\ UNCHANGED <<documents, di, stats>>
        ELSE /\ documents' = table
             /\ stats' = NewStats(Len(table))
             /\ di' = 1
             /\ bpc' = "loop"
             /\ UNCHANGED b_raised
    /\ UNCHANGED <<dpc, d_error, status, store, trace, processed, outcomes>>
    /\ UNCHANGED <<settingVars, docLocals>>
    /\ UNCHANGED <<chunkVars, enrichVars, genVars, runVars, embedVars>>

\* the loop takes the next document and calls index_document
BatchIter ==
    /\ bpc = "loop"
    /\ dpc = "idle"
    /\ di <= Len(documents)
    /\ dpc' = "fetch"
    /\ processed' = Append(processed, documents[di].id)
    /\ UNCHANGED <<batchVars, settingVars, docLocals, status, store, d_error,
                   trace, outcomes>>
    /\ UNCHANGED <<chunkVars, enrichVars, genVars, runVars, embedVars>>

\* the loop has ended: return stats
BatchReturn ==
    /\ bpc = "loop"
    /\ dpc = "idle"
    /\ di > Len(documents)
    /\ bpc' = "done"
    /\ UNCHANGED <<b_raised, documents, di, stats, dpc, d_error, status, store,
                   trace, processed, outcomes>>
    /\ UNCHANGED <<settingVars, docLocals>>
    /\ UNCHANGED <<chunkVars, enrichVars, genVars, runVars, embedVars>>

(* index_document *)

Step(name, ok) == [step |-> name, ok |-> ok]

\* a step raises: control goes to the except clause of index_document
Raise(name, error) ==
    /\ dpc' = "handler"
    /\ d_error' = error
    /\ trace' = Append(trace, Step(name, FALSE))

\* a step ends normally
Proceed(name, next) ==
    /\ dpc' = next
    /\ trace' = Append(trace, Step(name, TRUE))
    /\ UNCHANGED d_error

\* 1. fetch_document_by_id and the two checks on its result
IdxFetch ==
    /\ dpc = "fetch"
    /\ \E raises \in BOOLEAN :
        IF raises THEN Raise("fetch", "fetch_document_by_id")
        ELSE IF documents[di].kind = "gone" THEN Raise("fetch", "not found")
        ELSE IF DocText(documents[di].kind) = <<>>
        THEN Raise("fetch", "empty field")
        ELSE Proceed("fetch", IF use_llm_context THEN "summary" ELSE "chunk")
    /\ UNCHANGED <<batchVars, settingVars, docLocals, status, store, processed,
                   outcomes>>
    /\ UNCHANGED <<chunkVars, enrichVars, genVars, runVars, embedVars>>

\* 2. generate_document_summary: returns a text whatever the LLM does
IdxSummary ==
    /\ dpc = "summary"
    /\ \E llm_raises \in BOOLEAN : Proceed("summary", "chunk")
    /\ UNCHANGED <<batchVars, settingVars, docLocals, status, store, processed,
                   outcomes>>
    /\ UNCHANGED <<chunkVars, enrichVars, genVars, runVars, embedVars>>

\* 3. chunk_document
IdxChunk ==
    /\ dpc = "chunk"
    /\ IF documents[di].kind = "special"
       THEN /\ Raise("chunk", "encode")
            /\ UNCHANGED n_chunks
       ELSE /\ n_chunks' = ChunkCount(documents[di])
            /\ Proceed("chunk", "enrich")
    /\ UNCHANGED <<n_placeholders, n_enriched, n_embeddings, n_zero, n_vectors,
                   total_upserted>>
    /\ UNCHANGED <<batchVars, settingVars, status, store, processed, outcomes>>
    /\ UNCHANGED <<chunkVars, enrichVars, genVars, runVars, embedVars>>

\* where index_document goes once enriched_chunks exists: create_vectors_batch
\* calls the embedding service once per group of texts
AfterEnrich(n) == IF NumBatches(n, DefaultBatchSize) = 0 THEN "vectors" ELSE "embed"

\* 4. generate_contexts_batch, or the plain wrapping of the chunks
IdxEnrich ==
    /\ dpc = "enrich"
    /\ n_enriched' = n_chunks
    /\ IF use_llm_context
       THEN /\ \E llm_raises \in BOOLEAN :
                n_placeholders' = IF llm_raises THEN n_chunks ELSE 0
            /\ Proceed("enrich", AfterEnrich(n_chunks))
       ELSE /\ n_placeholders' = 0
            /\ Proceed("wrap", AfterEnrich(n_chunks))
    /\ UNCHANGED <<n_chunks, n_embeddings, n_zero, n_vectors, total_upserted>>
    /\ UNCHANGED <<batchVars, settingVars, status, store, processed, outcomes>>
    /\ UNCHANGED <<chunkVars, enrichVars, genVars, runVars, embedVars>>

\* where create_vectors_batch goes after group i: the next group, or the
\* building of the Vector Records
AfterEmbedGroup(i, n) ==
    IF i + 1 < NumBatches(n, DefaultBatchSize) THEN "embed" ELSE "vectors"

\* 5a. one group of generate_embeddings_batch: the call for the group or,
\* when it raises, the calls item by item, each ending in an embedding or
\* in the zero vector
IdxEmbedGroup ==
    /\ dpc = "embed"
    /\ LET i == n_embeddings \div DefaultBatchSize
           end_idx == EndIdx(i, DefaultBatchSize, n_enriched)
       IN  /\ n_embeddings' = end_idx
           /\ \E service_down \in BOOLEAN :
                n_zero' = IF service_down THEN n_zero + (end_idx - n_embeddings)
                          ELSE n_zero
           /\ Proceed("embed", AfterEmbedGroup(i, n_enriched))
    /\ UNCHANGED <<n_chunks, n_placeholders, n_enriched, n_vectors,
                   total_upserted>>
    /\ UNCHANGED <<batchVars, settingVars, status, store, processed, outcomes>>
    /\ UNCHANGED <<chunkVars, enrichVars, genVars, runVars, embedVars>>

\* the statement after upsert_batch
AfterUpsert(flag) == IF flag THEN "status" ELSE "return"

\* an upsert_batch that stops after its first upsert
AfterFirstUpsert(upserted, n, flag) == AfterUpsert(flag)

\* where index_document goes after an upsert of upsert_batch
AfterUpsertBatch(upserted, n, flag) ==
    IF upserted < n THEN "upsert" ELSE AfterUpsert(flag)

\* 5b. the Vector Records are built; joining the fields an LLM answer gave
\* raises when they are not texts
IdxVectors ==
    /\ dpc = "vectors"
    /\ \E raises \in BOOLEAN :
        /\ raises => use_llm_context /\ n_placeholders < n_enriched
        /\ IF raises
           THEN /\ Raise("vectors", "join")
                /\ UNCHANGED n_vectors
           ELSE /\ n_vectors' = Min(n_enriched, n_embeddings)
                /\ Proceed("vectors",
                           AfterUpsertBatch(0, Min(n_enriched, n_embeddings),
                                            update_oracle_status))
    /\ UNCHANGED <<n_chunks, n_placeholders, n_enriched, n_embeddings, n_zero,
                   total_upserted>>
    /\ UNCHANGED <<batchVars, settingVars, status, store, processed, outcomes>>
    /\ UNCHANGED <<chunkVars, enrichVars, genVars, runVars, embedVars>>

\* 6. one iteration of upsert_batch: vectors[i:i + batch_size] is upserted
IdxUpsert ==
    /\ dpc = "upsert"
    /\ LET i == total_upserted
           batch == i..(Min(i + UpsertBatchSize, n_vectors) - 1)
       IN  \E raises \in BOOLEAN :
            IF raises
            THEN /\ Raise("upsert", "upsert")
                 /\ UNCHANGED <<store, total_upserted>>
            ELSE /\ store' = [store EXCEPT ![documents[di].id] = @ \cup batch]
                 /\ total_upserted' = total_upserted + Cardinality(batch)
                 /\ Proceed("upsert",
                            AfterUpsertBatch(total_upserted + Cardinality(batch),
                                             n_vectors, update_oracle_status))
    /\ UNCHANGED <<n_chunks, n_placeholders, n_enriched, n_embeddings, n_zero,
                   n_vectors>>
    /\ UNCHANGED <<batchVars, settingVars, status, processed, outcomes>>
    /\ UNCHANGED <<chunkVars, enrichVars, genVars, runVars, embedVars>>

\* 7. update_document_status(doc_id, status="indexed", ...)
IdxStatus ==
    /\ dpc = "status"
    /\ \E raises \in BOOLEAN :
        IF raises
        THEN /\ Raise("status", "update_document_status")
             /\ UNCHANGED status
        ELSE /\ status' = [status EXCEPT ![documents[di].id] = "indexed"]
             /\ Proceed("status", "return")
    /\ UNCHANGED <<batchVars, settingVars, docLocals, store, processed, outcomes>>
    /\ UNCHANGED <<chunkVars, enrichVars, genVars, runVars, embedVars>>

\* the statistics index_document returns
Result(id, n, upserted, llm) ==
    [doc_id |-> id, chunks |-> n, vectors_upserted |-> upserted,
     use_llm_context |-> llm]

\* the try branch of the loop body after index_document has returned
RecordSuccess(st, result) ==
    [st EXCEPT !.successful = @ + 1,
               !.total_chunks = @ + result.chunks,
               !.total_vectors = @ + result.vectors_upserted]

\* a loop that counts the failure without an entry in the error list
RecordFailureNoEntry(st, id, error) == [st EXCEPT !.failed = @ + 1]

\* the except branch of the loop body
RecordFailure(st, id, error) ==
    [st EXCEPT !.failed = @ + 1,
               !.errors = Append(@, [doc_id |-> id, error |-> error])]

\* index_document is left: its locals end with the call, and the loop goes
\* to the next document
LeaveDocument ==
    /\ dpc' = "idle"
    /\ di' = di + 1
    /\ trace' = <<>>
    /\ d_error' = "none"
    /\ n_chunks' = 0
    /\ n_placeholders' = 0
    /\ n_enriched' = 0
    /\ n_embeddings' = 0
    /\ n_zero' = 0
    /\ n_vectors' = 0
    /\ total_upserted' = 0

\* index_document returns its statistics and the loop accounts for them
IdxReturn ==
    /\ dpc = "return"
    /\ LET result == Result(documents[di].id, n_chunks, total_upserted,
                            use_llm_context)
       IN  /\ stats' = RecordSuccess(stats, result)
           /\ outcomes' = Append(outcomes,
                  [doc_id |-> documents[di].id, kind |-> documents[di].kind,
                   ok |-> TRUE, chunks |-> result.chunks,
                   vectors |-> result.vectors_upserted, steps |-> trace])
    /\ LeaveDocument
    /\ UNCHANGED <<bpc, b_raised, documents, status, store, processed>>
    /\ UNCHANGED settingVars
    /\ UNCHANGED <<chunkVars, enrichVars, genVars, runVars, embedVars>>

\* an except clause that marks the document whatever the flag says
MarksErrorAlways(flag) == TRUE

\* if update_oracle_status: the except clause calls update_document_status
MarksError(flag) == flag

\* the except clause of index_document, then the except branch of the loop:
\* the status is set to "error" when asked for, and the exception (that of the
\* update when the update raises) reaches the loop, which accounts for it
IdxHandler ==
    /\ dpc = "handler"
    /\ \E raises \in BOOLEAN :
        LET marks == MarksError(update_oracle_status)
            steps == IF marks THEN Append(trace, Step("mark_error", ~raises))
                     ELSE trace
            error == IF marks /\ raises THEN "update_document_status"
                     ELSE d_error
        IN  /\ status' = IF marks /\ ~raises
                         THEN [status EXCEPT ![documents[di].id] = "error"]
                         ELSE status
            /\ stats' = RecordFailure(stats, documents[di].id, error)
            /\ outcomes' = Append(outcomes,
                   [doc_id |-> documents[di].id, kind |-> documents[di].kind,
                    ok |-> FALSE, chunks |-> n_chunks,
                    vectors |-> total_upserted, steps |-> steps])
    /\ LeaveDocument
    /\ UNCHANGED <<bpc, b_raised, documents, store, processed>>
    /\ UNCHANGED settingVars
    /\ UNCHANGED <<chunkVars, enrichVars, genVars, runVars, embedVars>>

Next ==
    \/ BatchCount \/ BatchFetch \/ BatchIter \/ BatchReturn
    \/ IdxFetch \/ IdxSummary \/ IdxChunk \/ IdxEnrich \/ IdxEmbedGroup
    \/ IdxVectors \/ IdxUpsert \/ IdxStatus \/ IdxReturn \/ IdxHandler

Spec == IndexInit /\ [][Next]_vars

-----------------------------------------------------------------------------
(* Properties of the chunker (SpecChunk) *)

\* C1: for every text and strategy the chunk_index values of the returned
\* list are exactly 0, 1, ..., n-1 in list order, also when empty or
\* whitespace-only spans were dropped.
C1_ChunkIndexContiguous ==
    cpc = "done" =>
        \A k \in 1..Len(chunks) : chunks[k].chunk_index = k - 1

\* the chunk's text contains one of the separators of the recursive strategy
HasSeparator(t) ==
    \E k \in 1..Len(separators) : Find(t, separators[k], 0) # -1

\* C2: every chunk of the recursive strategy has at most chunk_size tokens,
\* except a chunk that is one span containing none of the separators.
C2_RecursiveWithinBudget ==
    (cpc = "done" /\ strategy = "recursive") =>
        \A k \in 1..Len(chunks) :
            \/ count_tokens(chunks[k].text) <= chunk_size
            \/ ~HasSeparator(chunks[k].text)

\* C17: every chunk chunk_document returns under any strategy has
\* start_char < end_char and a text with at least one character that is not
\* whitespace.
C17_ChunksNotEmpty ==
    cpc = "done" =>
        \A k \in 1..Len(chunks) :
            /\ chunks[k].start_char < chunks[k].end_char
            /\ \E i \in 1..Len(chunks[k].text) : chunks[k].text[i] \notin Spaces

\* C18: start_char does not decrease as chunk_index increases, under every
\* strategy, also when the sentences of the sentence strategy are separated
\* by newlines or several spaces.
C18_StartCharMonotone ==
    cpc = "done" =>
        \A j, k \in 1..Len(chunks) :
            chunks[j].chunk_index < chunks[k].chunk_index =>
                chunks[j].start_char <= chunks[k].start_char

\* a whitespace-only window of the fixed-size strategy was dropped and a
\* later window was emitted
C17_Witness ==
    /\ cpc = "done"
    /\ strategy = "fixed_size"
    /\ chunk_size = 2
    /\ Len(text) >= 3 /\ text[1] \in Spaces /\ text[2] \in Spaces
    /\ Len(chunks) >= 1
    /\ chunks[1].start_char >= 2

\* C19: the semantic strategy is an alias of the recursive strategy: for the
\* same text, doc_id and configuration chunk_document returns equal chunk
\* sequences, field by field (the strategy tag of the metadata included).
C19_SemanticIsRecursive ==
    (cpc = "done" /\ strategy = "semantic") =>
        /\ Len(chunks) = Len(chunk_document(text, doc_id, "recursive",
                                            chunk_size, chunk_overlap))
        /\ \A k \in 1..Len(chunks) :
              LET r == chunk_document(text, doc_id, "recursive", chunk_size,
                                      chunk_overlap)[k]
              IN  /\ chunks[k].text = r.text
                  /\ chunks[k].chunk_index = r.chunk_index
                  /\ chunks[k].doc_id = r.doc_id
                  /\ chunks[k].start_char = r.start_char
                  /\ chunks[k].end_char = r.end_char
                  /\ chunks[k].token_count = r.token_count
                  /\ chunks[k].strategy = r.strategy

\* the semantic strategy returned several chunks
C19_Witness ==
    /\ cpc = "done"
    /\ strategy = "semantic"
    /\ Len(chunks) >= 2

\* C20: every configuration a TextChunker is constructed and run with has
\* chunk_overlap < chunk_size.
C20_OverlapBelowSize ==
    cpc = "done" => chunk_overlap < chunk_size

\* the two paragraphs of a text: what precedes and what follows its first
\* blank line
BlankLine == Find(text, <<NL, NL>>, 0)
FirstParagraph == Slice(text, 0, BlankLine)
SecondParagraph == Slice(text, BlankLine + 2, Len(text))

\* a paragraph: a text with no blank line in it and no whitespace at its ends
IsParagraph(t) ==
    /\ t # <<>>
    /\ Strip(t) = t
    /\ Find(t, <<NL, NL>>, 0) = -1

\* C22: for a first paragraph within the token budget, a blank line and a
\* second paragraph over the budget, the recursive strategy returns at least
\* two chunks, the first chunk's text is the first paragraph, and the
\* [start_char, end_char) ranges are pairwise disjoint and strictly increasing.
C22_TwoParagraphs ==
    (/\ cpc = "done"
     /\ strategy = "recursive"
     /\ BlankLine # -1
     /\ IsParagraph(FirstParagraph)
     /\ IsParagraph(SecondParagraph)
     /\ count_tokens(FirstParagraph) <= chunk_size
     /\ count_tokens(SecondParagraph) > chunk_size) =>
        /\ Len(chunks) >= 2
        /\ chunks[1].text = FirstParagraph
        /\ \A k \in 1..Len(chunks) :
              /\ 0 <= chunks[k].start_char
              /\ chunks[k].start_char < chunks[k].end_char
        /\ \A k \in 1..(Len(chunks) - 1) :
              chunks[k].end_char <= chunks[k + 1].start_char

\* the second paragraph was split into several chunks
C22_Witness ==
    /\ cpc = "done"
    /\ BlankLine # -1
    /\ IsParagraph(FirstParagraph)
    /\ IsParagraph(SecondParagraph)
    /\ count_tokens(FirstParagraph) <= chunk_size
    /\ count_tokens(SecondParagraph) > chunk_size
    /\ Len(chunks) >= 3
    /\ chunks[1].text = FirstParagraph

\* a chunk that is one word: no whitespace in its text
OneWord(t) == \A i \in 1..Len(t) : t[i] \notin Spaces

\* C23: in the sentence strategy the recorded token_count of every chunk is
\* at most chunk_size, unless the chunk is a single word that alone exceeds
\* chunk_size.
C23_SentenceWithinBudget ==
    (cpc = "done" /\ strategy = "sentence") =>
        \A k \in 1..Len(chunks) :
            \/ chunks[k].token_count <= chunk_size
            \/ /\ OneWord(chunks[k].text)
               /\ count_tokens(chunks[k].text) > chunk_size

\* a sentence over the budget was split into words, its last word group was
\* carried into the running chunk and emitted when the next sentence came
C23_Witness ==
    /\ cpc = "done"
    /\ strategy = "sentence"
    /\ Len(SentenceSplit(text)) = 2
    /\ count_tokens(SentenceSplit(text)[1]) > chunk_size
    /\ Len(chunks) >= 2
    /\ chunks[Len(chunks)].text = SentenceSplit(text)[2]

\* C26: for every chunk of every strategy the offsets locate the chunk in
\* the source: 0 <= start_char < end_char <= len(text) and
\* text[start_char:end_char] is the chunk's text.
C26_OffsetsLocateChunk ==
    cpc = "done" =>
        \A k \in 1..Len(chunks) :
            /\ 0 <= chunks[k].start_char
            /\ chunks[k].start_char < chunks[k].end_char
            /\ chunks[k].end_char <= Len(text)
            /\ SubSeq(text, chunks[k].start_char + 1, chunks[k].end_char)
                   = chunks[k].text

\* the characters of t that are not whitespace, in order
NonSpace(t) == SelectSeq(t, LAMBDA c : c \notin Spaces)

\* the texts of the chunks one after the other
RECURSIVE ChunkTexts(_)
ChunkTexts(cs) == IF cs = <<>> THEN <<>> ELSE cs[1].text \o ChunkTexts(Tail(cs))

\* a occurs in b as a subsequence
RECURSIVE OccursInOrder(_, _)
OccursInOrder(a, b) ==
    IF a = <<>> THEN TRUE
    ELSE IF b = <<>> THEN FALSE
    ELSE IF a[1] = b[1] THEN OccursInOrder(Tail(a), Tail(b))
    ELSE OccursInOrder(a, Tail(b))

\* C27: the recursive strategy loses no content: every character of the
\* source that is not whitespace occurs, in source order, in the
\* concatenation of the chunk texts.
C27_RecursiveLosesNothing ==
    (cpc = "done" /\ strategy = "recursive") =>
        OccursInOrder(NonSpace(text), ChunkTexts(chunks))

-----------------------------------------------------------------------------
(* Properties of the enrichment of one chunk (SpecEnrich) *)

\* the service answered, and the answer could not be parsed
Unparsable(provider, answer) ==
    ~answer.raises /\ ~Parse(provider, answer.content).ok

\* C4: when the service returns a response that cannot be parsed, the
\* enrichment is not retried: the service is invoked exactly once for the
\* chunk and the placeholder EnrichedChunk is returned.
C4_MalformedNotRetried ==
    (\E i \in 1..Len(responses) : Unparsable(use_provider, responses[i])) =>
        /\ llm_calls = 1
        /\ (epc = "done" => e_result = Placeholder(e_chunk))

\* the answer of the last invocation gives no EnrichedChunk: the attempt
\* raised, or the parsed value is no mapping, or a field is unusable
LastAnswerFails ==
    /\ responses # <<>>
    /\ LET answer == responses[Len(responses)]
       IN  \/ AttemptRaises(use_provider, answer)
           \/ EnhancedTextRaises(Parse(use_provider, answer.content))

\* C10: generate_context_for_chunk never raises; on failure it returns an
\* EnrichedChunk with empty key_concepts, keywords and questions, the fixed
\* topic marker, a non-null summary and enhanced_text equal to the chunk's
\* text.
C10_DegradesToPlaceholder ==
    /\ ~e_raised
    /\ (epc = "done" /\ LastAnswerFails) =>
        /\ e_result.original_chunk = e_chunk
        /\ e_result.key_concepts = PyList(<<>>)
        /\ e_result.keywords = PyList(<<>>)
        /\ e_result.questions = PyList(<<>>)
        /\ e_result.topic = PyStr(UnknownTopic)
        /\ e_result.contextual_summary # PyNone
        /\ e_result.enhanced_text = e_chunk.text

\* the service raised on all three attempts and the placeholder came back
C10_Witness ==
    /\ epc = "done"
    /\ llm_calls = StopAfterAttempt
    /\ \A i \in 1..Len(responses) : responses[i].raises
    /\ e_result = Placeholder(e_chunk)

\* C12: for one chunk the service is invoked at most 3 times; an attempt
\* that succeeds ends the attempts and the EnrichedChunk is built from its
\* result; the attempts go on while they fail, and after the third failure
\* in a row nothing more is invoked and the placeholder is returned.
C12_AtMostThreeAttempts ==
    /\ llm_calls <= 3
    /\ llm_calls = Len(responses)
    /\ \A i \in 1..(Len(responses) - 1) : AttemptRaises(use_provider, responses[i])
    /\ (epc = "done" /\ gpc = "idle") =>
          LET last == responses[Len(responses)]
              p == Parse(use_provider, last.content)
          IN  IF AttemptRaises(use_provider, last)
              THEN llm_calls = 3 /\ e_result = Placeholder(e_chunk)
              ELSE ~EnhancedTextRaises(p) => e_result = Enriched(e_chunk, p.value)

\* two failed attempts, then the third succeeds and its result is used
C12_Witness ==
    /\ epc = "done"
    /\ gpc = "idle"
    /\ llm_calls = 3
    /\ ~AttemptRaises(use_provider, responses[3])
    /\ e_result = Enriched(e_chunk, FullContext)

\* C24: between the attempts of one invocation the delay grows exponentially:
\* the delay before attempt n + 1 is double the delay before attempt n until
\* the cap is reached, and no delay exceeds the cap.
C24_BackoffDoubles ==
    /\ \A n \in 1..Len(delays) : delays[n] <= WaitMax
    /\ \A n \in 1..(Len(delays) - 1) :
          delays[n + 1] = Min(2 * delays[n], WaitMax)

-----------------------------------------------------------------------------
(* Properties of the embedding generator (SpecEmbed) *)

\* C3: every Vector Record returned by create_vectors_batch or
\* create_vector_for_enriched_chunk carries a vector whose length is the
\* configured embedding dimension; a vector of another length from the
\* service makes the construction fail instead of returning the record.
C3_VectorLengthValidated ==
    (mpc = "done" /\ m_entry \in {"create_vectors_batch",
                                  "create_vector_for_enriched_chunk"}) =>
        \A k \in 1..Len(vectors) : vectors[k].values.len = dimension

\* the entries that run generate_embeddings_batch
BatchEntry == m_entry \in {"generate_embeddings_batch", "create_vectors_batch"}

\* C13: generate_embeddings_batch returns a list as long as texts in which
\* position i holds the vector obtained for texts[i], or the zero vector put
\* in its place, for every batch_size and every pattern of failures of the
\* group calls and of the item calls.
C13_OneVectorPerTextInOrder ==
    BatchEntry =>
        /\ Len(all_embeddings) <= Len(m_texts)
        /\ mpc \in {"build", "done"} => Len(all_embeddings) = Len(m_texts)
        /\ \A i \in 1..Len(all_embeddings) :
              \/ all_embeddings[i].zero
              \/ all_embeddings[i].src = Clean(m_texts[i])

\* three texts in groups of two; the call for the first group fails and its
\* first item fails each time it is retried
C13_Witness ==
    /\ m_entry = "generate_embeddings_batch"
    /\ mpc = "done"
    /\ batch_size = 2
    /\ Len(all_embeddings) = 3
    /\ all_embeddings[1].zero
    /\ ~all_embeddings[2].zero
    /\ ~all_embeddings[3].zero

GroupCalls(i) ==
    {c \in 1..Len(emb_calls) :
        /\ emb_calls[c].kind = "group"
        /\ emb_calls[c].first = i * batch_size}
ItemCalls(j) ==
    {c \in 1..Len(emb_calls) :
        emb_calls[c].kind = "item" /\ emb_calls[c].first = j}
LastOf(S) == CHOOSE c \in S : \A d \in S : d <= c

\* C14: generate_embeddings_batch is never left by an exception of the
\* service.  There is one call per group; the items of a group are called
\* one by one exactly when the call for their group failed; such an item is
\* tried up to three times, and when every try fails its place is taken by
\* a vector of self.dimension zeros, otherwise by its embedding.
C14_GroupFallbackAndZeroVector ==
    BatchEntry =>
        /\ ~m_raised
        /\ mpc \in {"build", "done"} =>
              \A i \in 0..(NumBatches(Len(m_texts), batch_size) - 1) :
                  /\ Cardinality(GroupCalls(i)) = 1
                  /\ \A j \in (i * batch_size)..
                              (Min((i + 1) * batch_size, Len(m_texts)) - 1) :
                        IF emb_calls[LastOf(GroupCalls(i))].raised
                        THEN /\ Cardinality(ItemCalls(j)) \in 1..3
                             /\ \A c \in ItemCalls(j) \ {LastOf(ItemCalls(j))} :
                                   emb_calls[c].raised
                             /\ IF emb_calls[LastOf(ItemCalls(j))].raised
                                THEN /\ Cardinality(ItemCalls(j)) = 3
                                     /\ all_embeddings[j + 1].zero
                                     /\ all_embeddings[j + 1].len = dimension
                                ELSE all_embeddings[j + 1] =
                                        Embedding(Clean(m_texts[j + 1]), service_len)
                        ELSE /\ ItemCalls(j) = {}
                             /\ all_embeddings[j + 1] =
                                   Embedding(Clean(m_texts[j + 1]), service_len)

\* three texts in groups of two: the call for the first group fails, its
\* first item is embedded on its own, its second item fails three times and
\* becomes the zero vector, and the second group takes one call
C14_Witness ==
    /\ m_entry = "generate_embeddings_batch"
    /\ mpc = "done"
    /\ batch_size = 2
    /\ Len(all_embeddings) = 3
    /\ ~all_embeddings[1].zero
    /\ all_embeddings[2] = [src |-> <<>>, len |-> dimension, zero |-> TRUE]
    /\ ~all_embeddings[3].zero
    /\ ItemCalls(2) = {}
    /\ Cardinality(ItemCalls(1)) = 3

\* create_vectors_batch has returned
VectorsBuilt == m_entry = "create_vectors_batch" /\ mpc = "done"

\* C25 as stated: the text sent to the embedding service for a chunk is its
\* enhanced_text when enrichment is enabled and the original chunk text when
\* it is disabled (and so the original chunk text for a chunk whose
\* enrichment failed), and every chunk gets exactly one Vector Record.
C25_EmbeddedTextIsSelectedText ==
    VectorsBuilt =>
        /\ Len(vectors) = Len(m_chunks)
        /\ \A k \in 1..Len(vectors) :
              ~vectors[k].values.zero =>
                  vectors[k].values.src =
                      IF use_enhanced_text THEN m_chunks[k].enhanced_text
                      ELSE m_chunks[k].original_chunk.text

\* C25, amended: the text sent is the selected text with every newline
\* replaced by a space and the whitespace at its ends removed.
C25_EmbeddedTextIsCleanedText ==
    VectorsBuilt =>
        /\ Len(vectors) = Len(m_chunks)
        /\ \A k \in 1..Len(vectors) :
              /\ vectors[k].id = VectorId(m_chunks[k].original_chunk.doc_id,
                                          m_chunks[k].original_chunk.chunk_index)
              /\ ~vectors[k].values.zero =>
                    /\ use_enhanced_text =>
                          vectors[k].values.src = Clean(m_chunks[k].enhanced_text)
                    /\ ~use_enhanced_text =>
                          vectors[k].values.src =
                              Clean(m_chunks[k].original_chunk.text)
                    /\ (use_enhanced_text
                        /\ m_chunks[k] = Placeholder(m_chunks[k].original_chunk)) =>
                          vectors[k].values.src =
                              Clean(m_chunks[k].original_chunk.text)

\* enrichment was enabled and failed for one chunk of several; that chunk and
\* an enriched one were embedded
C25_Witness ==
    /\ VectorsBuilt
    /\ use_enhanced_text
    /\ Len(vectors) >= 2
    /\ \E j, k \in 1..Len(vectors) :
          /\ m_chunks[j] = Placeholder(m_chunks[j].original_chunk)
          /\ ~vectors[j].values.zero
          /\ m_chunks[k] # Placeholder(m_chunks[k].original_chunk)
          /\ ~vectors[k].values.zero
          /\ vectors[k].values.src # vectors[j].values.src

\* C29: for every supported embedding_model the dimension of the zero
\* vectors the EmbeddingGenerator substitutes equals the dimension with which
\* the DocumentIndexer creates the index.
C29_ZeroVectorFitsIndex ==
    \A k \in 1..Len(all_embeddings) :
        all_embeddings[k].zero => all_embeddings[k].len = IndexDimension

-----------------------------------------------------------------------------
(* Properties of the indexer (Spec) *)

\* the ended index_document calls in which a text that is not empty was
\* fetched and the chunker made no chunk of it
ZeroChunkRuns ==
    {k \in 1..Len(outcomes) :
        /\ DocText(outcomes[k].kind) # <<>>
        /\ \E i \in 1..Len(outcomes[k].steps) :
              outcomes[k].steps[i] = Step("chunk", TRUE)
        /\ outcomes[k].chunks = 0}

ErrorIds == [k \in 1..Len(stats.errors) |-> stats.errors[k].doc_id]

InErrors(id) == \E k \in 1..Len(ErrorIds) : ErrorIds[k] = id

\* C5: a fetched document with a non-empty text of which the chunker makes
\* zero chunks is not indexed: its status is not set to "indexed", the
\* batch run does not count it as successful and lists it among the errors.
C5_ZeroChunksStops ==
    \A k \in ZeroChunkRuns :
        /\ status[outcomes[k].doc_id] # "indexed"
        /\ ~outcomes[k].ok
        /\ InErrors(outcomes[k].doc_id)

Failed == SelectSeq(outcomes, LAMBDA o : ~o.ok)
Succeeded == SelectSeq(outcomes, LAMBDA o : o.ok)

RECURSIVE SumOf(_, _)
SumOf(seq, field) ==
    IF seq = <<>> THEN 0 ELSE seq[1][field] + SumOf(Tail(seq), field)

\* C6: index_all_documents calls index_document once for every fetched
\* document, in fetch order, whichever of them fail; when it returns,
\* successful + failed = total_documents, the error list has one entry per
\* failed document, with its id, and total_chunks and total_vectors are the
\* sums over the successful documents only.
C6_BatchAccounting ==
    (bpc = "done" /\ ~b_raised) =>
        /\ processed = [i \in 1..Len(documents) |-> documents[i].id]
        /\ stats.total_documents = Len(documents)
        /\ stats.successful + stats.failed = stats.total_documents
        /\ stats.successful = Len(Succeeded)
        /\ stats.failed = Len(Failed)
        /\ ErrorIds = [k \in 1..Len(Failed) |-> Failed[k].doc_id]
        /\ stats.total_chunks = SumOf(Succeeded, "chunks")
        /\ stats.total_vectors = SumOf(Succeeded, "vectors")

\* the first document fails after vectors of it were upserted, the loop
\* goes on and the second document succeeds
C6_Witness ==
    /\ bpc = "done"
    /\ ~b_raised
    /\ Len(outcomes) = 2
    /\ ~outcomes[1].ok /\ outcomes[2].ok
    /\ outcomes[1].vectors > 0
    /\ stats.total_chunks > 0
    /\ stats.failed = 1

\* C7: whatever the collaborators raise, index_all_documents returns its
\* statistics and is never left by an exception.
C7_BatchNeverRaises == ~b_raised

\* the index_document calls that ended in a failure
FailedRuns == {k \in 1..Len(outcomes) : ~outcomes[k].ok}

StatusCalls(steps) ==
    {i \in 1..Len(steps) : steps[i].step \in {"status", "mark_error"}}
MarkCalls(steps) == {i \in 1..Len(steps) : steps[i].step = "mark_error"}

\* C8 as stated: after a failed index_document the status of the document
\* is "error" when update_oracle_status is true, and no
\* update_document_status call was made when it is false.
C8_StatusIsError ==
    \A k \in FailedRuns :
        IF update_oracle_status
        THEN status[outcomes[k].doc_id] = "error"
        ELSE StatusCalls(outcomes[k].steps) = {}

\* C8 amended: a failed index_document makes, when update_oracle_status is
\* true, exactly one update_document_status(doc_id, "error") call, as its
\* last step and right after the step that failed, and the status is "error"
\* whenever that call succeeds; when update_oracle_status is false it makes
\* no update_document_status call at all.
C8_MarksErrorOnce ==
    \A k \in FailedRuns :
        LET steps == outcomes[k].steps
        IN  IF update_oracle_status
            THEN /\ MarkCalls(steps) = {Len(steps)}
                 /\ ~steps[Len(steps) - 1].ok
                 /\ steps[Len(steps)].ok => status[outcomes[k].doc_id] = "error"
            ELSE StatusCalls(steps) = {}

\* a run that failed at its fifth step or later and was marked
C8_Witness ==
    /\ update_oracle_status
    /\ \E k \in FailedRuns :
        /\ Len(outcomes[k].steps) > 5
        /\ outcomes[k].steps[Len(outcomes[k].steps)] = Step("mark_error", TRUE)
        /\ status[outcomes[k].doc_id] = "error"

StepRank(name) ==
    CASE name = "fetch" -> 1
      [] name = "summary" -> 2
      [] name = "chunk" -> 3
      [] name \in {"enrich", "wrap"} -> 4
      [] name = "embed" -> 5
      [] name = "vectors" -> 6
      [] name = "upsert" -> 7
      [] name = "status" -> 8
      [] name = "mark_error" -> 9

\* the steps come in rank order and a failed step is followed by nothing but
\* the marking of the error
InOrder(steps) ==
    \A i, j \in 1..Len(steps) :
        i < j => /\ StepRank(steps[i].step) <= StepRank(steps[j].step)
                 /\ ~steps[i].ok => (steps[j].step = "mark_error" /\ j = i + 1)

Done(name) == \E k \in 1..Len(trace) : trace[k] = Step(name, TRUE)
Tried(name) == \E k \in 1..Len(trace) : trace[k].step = name
Upserts(steps) ==
    Cardinality({k \in 1..Len(steps) : steps[k] = Step("upsert", TRUE)})

\* C9: within one index_document run the steps come in the order fetch,
\* chunk, enrich, embed, upsert, status update; chunking has completed before
\* enrichment, every chunk is enriched before the first embedding call, every
\* embedding exists before the first upsert, "indexed" is written only after
\* every upsert batch has succeeded, and nothing follows a failed step but
\* the marking of the error.
C9_StepOrder ==
    /\ InOrder(trace)
    /\ \A k \in 1..Len(outcomes) : InOrder(outcomes[k].steps)
    /\ Tried("chunk") => Done("fetch")
    /\ (Tried("enrich") \/ Tried("wrap")) => Done("chunk")
    /\ Tried("enrich") => use_llm_context
    /\ Tried("wrap") => ~use_llm_context
    /\ (Tried("embed") \/ Tried("vectors")) =>
          /\ Done("enrich") \/ Done("wrap")
          /\ n_enriched = n_chunks
    /\ Tried("upsert") =>
          /\ Done("vectors")
          /\ n_embeddings = n_chunks
          /\ n_vectors = n_chunks
    /\ Tried("status") =>
          /\ Done("vectors")
          /\ Upserts(trace) = NumBatches(n_vectors, UpsertBatchSize)
          /\ total_upserted = n_vectors
          /\ n_vectors = n_chunks
    /\ \A id \in 1..Len(status) :
          status[id] = "indexed" => Cardinality(store[id]) = ChunkCount(table[id])

\* a document of two upsert batches has been enriched, embedded, upserted
\* and marked "indexed"
C9_Witness ==
    /\ Done("status")
    /\ Upserts(trace) = 2
    /\ Done("enrich")
    /\ status[documents[di].id] = "indexed"

\* C28: a failed index_document run leaves no vector of that run in the
\* vector store: no upsert batch of a run that failed was written.
C28_FailedRunStoresNothing ==
    \A k \in FailedRuns :
        /\ Upserts(outcomes[k].steps) = 0
        /\ store[outcomes[k].doc_id] = {}

-----------------------------------------------------------------------------
(* Properties of generate_contexts_batch (SpecGen) *)

\* what generate_context_for_chunk makes of a chunk when the last answer of
\* the service for that chunk is answer
ResultFor(provider, chunk, answer) ==
    IF AttemptRaises(provider, answer)
       \/ EnhancedTextRaises(Parse(provider, answer.content))
    THEN Placeholder(chunk)
    ELSE Enriched(chunk, Parse(provider, answer.content).value)

\* C11: generate_contexts_batch returns one EnrichedChunk per input chunk, in
\* input order, the i-th wrapping the i-th input chunk unchanged; what the
\* i-th result is depends on the answers for the i-th chunk only, so a
\* failure for one chunk changes neither the number of results nor any
\* other result.
C11_OnePerChunkInOrder ==
    /\ gpc # "raised"
    /\ Len(enriched_chunks) = Len(g_answers)
    /\ gpc = "done" => Len(enriched_chunks) = Len(g_chunks)
    /\ \A i \in 1..Len(enriched_chunks) :
          /\ enriched_chunks[i].original_chunk = g_chunks[i]
          /\ enriched_chunks[i] = ResultFor(use_provider, g_chunks[i], g_answers[i])

\* the enrichment of the first of two chunks failed and that of the second
\* did not
C11_Witness ==
    /\ gpc = "done"
    /\ Len(g_chunks) = 2
    /\ enriched_chunks[1] = Placeholder(g_chunks[1])
    /\ enriched_chunks[2] = Enriched(g_chunks[2], FullContext)

-----------------------------------------------------------------------------
(* Properties of repeated runs (SpecRun) *)

\* C15: the id of a Vector Record is determined by (doc_id, chunk_index) and
\* differs for different pairs; indexing the same unchanged documents again
\* upserts the same ids, so the ids the store holds after the second run are
\* those it held after the first.
C15_IdsDeterministicAndDistinct ==
    /\ \A a, b \in r_upserted :
          a.id = b.id <=> (a.doc_id = b.doc_id /\ a.chunk_index = b.chunk_index)
    /\ \A r \in r_store : \E a \in r_upserted : a.id = r.id
    /\ Len(r_after) = 2 => r_after[2] = r_after[1]

\* two different documents of two chunks each were indexed twice
C15_Witness ==
    /\ Len(r_after) = 2
    /\ r_docs[1] # r_docs[2]
    /\ Cardinality(r_after[2]) = 4

\* the values a metadata mapping of the vector store may hold here
Scalar(x) == x.t \in {"str", "int", "float", "bool"}

\* C16: every metadata value of every Vector Record that create_vectors_batch
\* builds from the enriched chunks of generate_contexts_batch is a scalar,
\* whatever the types of the fields of the service's response.
C16_MetadataScalar ==
    gpc = "done" =>
        LET records == BuildVectors(enriched_chunks,
                           [k \in 1..Len(enriched_chunks) |-> ZeroVector(1)])
        IN  \A k \in 1..Len(records) :
                \A key \in DOMAIN records[k].metadata :
                    Scalar(records[k].metadata[key])

-----------------------------------------------------------------------------
(* Properties of the loop of the fixed-size strategy (FairSpecWindow) *)

\* C21: the fixed-size strategy terminates for every text and configuration
\* with chunk_size >= 1, chunk_overlap >= chunk_size included: every
\* iteration moves the window start strictly forward, and the loop ends.
C21_FixedSizeTerminates ==
    /\ [][w_start' # w_start => w_start' > w_start]_vars
    /\ [][(wpc = "loop" /\ wpc' = "loop") => w_start' > w_start]_vars
    /\ <>(wpc = "done")

\* the loop ended after several windows with an overlap that is not below the
\* window size, with the chunks the strategy returns
C21_Witness ==
    /\ wpc = "done"
    /\ chunk_overlap >= chunk_size
    /\ Len(chunks) >= 2
    /\ chunks = chunk_fixed_size(text, doc_id, chunk_size, chunk_overlap)

\* the ids of the Vector Records a run over the documents builds from the
\* text as it is now
IdsOfText ==
    UNION {{VectorsOfChunks(chunk_document(text, r_docs[d], strategy,
                                           chunk_size, chunk_overlap))[k].id :
                k \in 1..Len(chunk_document(text, r_docs[d], strategy,
                                            chunk_size, chunk_overlap))} :
           d \in 1..Len(r_docs)}

\* C30: after successful runs on documents whose text changed between the
\* runs, the vector store holds for each document exactly the ids the latest
\* run produced: no vector of an earlier, longer version is left behind.
C30_StoreHoldsLatestRun ==
    (r_pos > Len(r_docs) /\ cpc = "idle") =>
        {r.id : r \in r_store} = IdsOfText

=============================================================================
